---- MODULE Spec2Model ----
(***************************************************************************)
(* Model of the agent loop and action dispatcher of ai-agent-task          *)
(* (internal/usecase: AgentService.Execute, Stop, handleAction,            *)
(* isDuplicateAction, shouldConfirm, requestUserConfirmation and the       *)
(* action* executors), against an abstract BrowserManager / AIClient port. *)
(*                                                                         *)
(* Go strings are modelled as sequences of one-character strings so that   *)
(* strings.ToLower, strings.Contains, strings.TrimSpace and len() are      *)
(* computed, not assumed.  A Cyrillic letter is written "cy_x" (lower      *)
(* case) or "CY_x" (upper case) and counts two bytes, as in UTF-8.         *)
(***************************************************************************)
EXTENDS Integers, Sequences, FiniteSets, TLC

(***************************************************************************)
(* Program constants.                                                      *)
(***************************************************************************)
maxIterations == 16

maxConsecutiveErrors == 3

(***************************************************************************)
(* Bounds of the model.                                                    *)
(***************************************************************************)
\* dispatches recorded per service in the loop specification
MaxDispatch == 3

\* dispatches recorded per service in the dispatcher specification
MaxDispatchD == 2

\* Execute calls per service
MaxExecutes == 2

\* model responses that carry a non-empty Thought, per Execute call
MaxThoughts == 1

(***************************************************************************)
(* apperr codes (pkg/apperr) and the texts Execute writes to Task.Error.   *)
(***************************************************************************)
CodeInternal == "internal"

CodeInvalidArgument == "invalid_argument"

CodeMaxIterations == "max_iterations"

CodeDuplicateAction == "duplicate_action"

CodeCancelledByUser == "cancelled_by_user"

CodeBrowserNotReady == "browser_not_ready"

CodeActionFailed == "action_failed"

CodeAIError == "ai_error"

NoError == "nil"

(***************************************************************************)
(* Strings.                                                                *)
(***************************************************************************)
UpperLetters ==
    << "A","B","C","D","E","F","G","H","I","J","K","L","M","N","O","P","Q",
       "R","S","T","U","V","W","X","Y","Z",
       "CY_u","CY_d","CY_a","CY_l","CY_i","CY_t","CY_soft","CY_o","CY_p",
       "CY_k","CY_s" >>

LowerLetters ==
    << "a","b","c","d","e","f","g","h","i","j","k","l","m","n","o","p","q",
       "r","s","t","u","v","w","x","y","z",
       "cy_u","cy_d","cy_a","cy_l","cy_i","cy_t","cy_soft","cy_o","cy_p",
       "cy_k","cy_s" >>

\* unicode.ToLower on one character
LowerChar(c) ==
    IF \E i \in 1..Len(UpperLetters) : UpperLetters[i] = c
    THEN LowerLetters[CHOOSE i \in 1..Len(UpperLetters) : UpperLetters[i] = c]
    ELSE c

\* variant: case is left as it is
ToLowerIdentity(s) == s

\* strings.ToLower
ToLower(s) == [i \in 1..Len(s) |-> LowerChar(s[i])]

\* strings.Contains
Contains(s, sub) ==
    \E i \in 0..(Len(s) - Len(sub)) : SubSeq(s, i + 1, i + Len(sub)) = sub

\* number of UTF-8 bytes of one character
CharBytes(c) ==
    IF \E i \in 27..Len(UpperLetters) : c = UpperLetters[i] \/ c = LowerLetters[i]
    THEN 2 ELSE 1

\* len(s) of a Go string: its length in bytes
ByteLen(s) == Len(s) + Cardinality({i \in 1..Len(s) : CharBytes(s[i]) = 2})

IsSpace(c) == c \in {" ", "\t", "\n", "\r"}

RECURSIVE TrimLeft(_)
TrimLeft(s) == IF s # << >> /\ IsSpace(Head(s)) THEN TrimLeft(Tail(s)) ELSE s

RECURSIVE TrimRight(_)
TrimRight(s) ==
    IF s # << >> /\ IsSpace(s[Len(s)]) THEN TrimRight(SubSeq(s, 1, Len(s) - 1)) ELSE s

\* strings.TrimSpace
TrimSpace(s) == TrimRight(TrimLeft(s))

\* the words the safety gate and actionFill look for
W_password == << "p","a","s","s","w","o","r","d" >>

W_card == << "c","a","r","d" >>

W_cvv == << "c","v","v" >>

W_pin == << "p","i","n" >>

W_code == << "c","o","d","e" >>

W_delete == << "d","e","l","e","t","e" >>

W_remove == << "r","e","m","o","v","e" >>

W_udalit == << "cy_u","cy_d","cy_a","cy_l","cy_i","cy_t","cy_soft" >>

W_pay == << "p","a","y" >>

W_oplat == << "cy_o","cy_p","cy_l","cy_a","cy_t" >>

W_kupit == << "cy_k","cy_u","cy_p","cy_i","cy_t","cy_soft" >>

W_buy == << "b","u","y" >>

W_payment == << "p","a","y","m","e","n","t" >>

W_checkout == << "c","h","e","c","k","o","u","t" >>

W_cart == << "c","a","r","t" >>

W_oplata == << "cy_o","cy_p","cy_l","cy_a","cy_t","cy_a" >>

W_search == << "s","e","a","r","c","h" >>

W_query == << "q","u","e","r","y" >>

W_poisk == << "cy_p","cy_o","cy_i","cy_s","cy_k" >>

W_yes == << "y","e","s" >>

W_y == << "y" >>

W_Enter == << "E","n","t","e","r" >>

(***************************************************************************)
(* entity.BrowserAction and entity.ActionType.                             *)
(***************************************************************************)
ActionTypeNavigate == "navigate"

ActionTypeClick == "click"

ActionTypeClickCoordinates == "click_coordinates"

ActionTypeFill == "fill"

ActionTypeWait == "wait"

ActionTypeScroll == "scroll"

ActionTypePress == "press"

BrowserAction(type, selector, value, url, waitFor, x, y) ==
    [Type |-> type, Selector |-> selector, Value |-> value, URL |-> url,
     WaitFor |-> waitFor, X |-> x, Y |-> y]

\* s.lastAction == nil
NoAction == [Type |-> "nil"]

(***************************************************************************)
(* isDuplicateAction: the remembered action against the incoming one.      *)
(***************************************************************************)
isDuplicateAction(last, action) ==
    IF last = NoAction THEN FALSE
    ELSE IF last.Type # action.Type THEN FALSE
    ELSE CASE action.Type = ActionTypeNavigate -> last.URL = action.URL
           [] action.Type = ActionTypeClick -> last.Selector = action.Selector
           [] action.Type = ActionTypeFill ->
                last.Selector = action.Selector /\ last.Value = action.Value
           [] action.Type = ActionTypeScroll ->
                last.Value = action.Value /\ last.WaitFor = action.WaitFor
           [] action.Type = ActionTypeClickCoordinates ->
                last.X = action.X /\ last.Y = action.Y
           [] OTHER -> FALSE

(***************************************************************************)
(* shouldConfirm: the safety gate's predicate.                             *)
(***************************************************************************)
\* variant: a navigation to a payment page is stopped as well
shouldConfirmNavigation(action, currentURL) ==
    CASE action.Type = ActionTypeFill ->
           LET lower == ToLower(action.Selector)
               lowerValue == ToLower(action.Value)
           IN  \/ Contains(lower, W_password)
               \/ Contains(lower, W_card)
               \/ Contains(lower, W_cvv)
               \/ Contains(lower, W_pin)
               \/ (Contains(lower, W_code) /\ ByteLen(action.Value) <= 6)
               \/ Contains(lowerValue, W_delete)
               \/ Contains(lowerValue, W_remove)
               \/ Contains(lowerValue, W_udalit)
      [] action.Type = ActionTypeClick ->
           LET lower == ToLower(action.Selector)
               urlLower == ToLower(currentURL)
           IN  /\ \/ Contains(lower, W_delete)
                  \/ Contains(lower, W_remove)
                  \/ Contains(lower, W_udalit)
                  \/ Contains(lower, W_pay)
                  \/ Contains(lower, W_oplat)
                  \/ Contains(lower, W_kupit)
                  \/ Contains(lower, W_buy)
               /\ \/ Contains(urlLower, W_payment)
                  \/ Contains(urlLower, W_checkout)
                  \/ Contains(urlLower, W_cart)
                  \/ Contains(urlLower, W_oplata)
      [] action.Type = ActionTypeNavigate ->
           \/ Contains(ToLower(action.URL), W_payment)
           \/ Contains(ToLower(action.URL), W_checkout)
      [] OTHER -> FALSE

shouldConfirm(action, currentURL) ==
    CASE action.Type = ActionTypeFill ->
           LET lower == ToLower(action.Selector)
               lowerValue == ToLower(action.Value)
           IN  \/ Contains(lower, W_password)
               \/ Contains(lower, W_card)
               \/ Contains(lower, W_cvv)
               \/ Contains(lower, W_pin)
               \/ (Contains(lower, W_code) /\ ByteLen(action.Value) <= 6)
               \/ Contains(lowerValue, W_delete)
               \/ Contains(lowerValue, W_remove)
               \/ Contains(lowerValue, W_udalit)
      [] action.Type = ActionTypeClick ->
           LET lower == ToLower(action.Selector)
               urlLower == ToLower(currentURL)
           IN  /\ \/ Contains(lower, W_delete)
                  \/ Contains(lower, W_remove)
                  \/ Contains(lower, W_udalit)
                  \/ Contains(lower, W_pay)
                  \/ Contains(lower, W_oplat)
                  \/ Contains(lower, W_kupit)
                  \/ Contains(lower, W_buy)
               /\ \/ Contains(urlLower, W_payment)
                  \/ Contains(urlLower, W_checkout)
                  \/ Contains(urlLower, W_cart)
                  \/ Contains(urlLower, W_oplata)
      [] OTHER -> FALSE

(***************************************************************************)
(* requestUserConfirmation: one line read from stdin, or end of input.     *)
(***************************************************************************)
\* scanner.Scan() returned false
EOF == << "EOF" >>

\* variant: every line that was read counts as consent
requestUserConfirmationAnyLine(input) == input # EOF

requestUserConfirmation(input) ==
    IF input # EOF
    THEN LET response == ToLower(TrimSpace(input))
         IN  response = W_yes \/ response = W_y
    ELSE FALSE

(***************************************************************************)
(* The browser port as the agent sees it.  The page is at one of w.urls; *)
(* every driver operation may fail, and an operation that succeeds may     *)
(* leave the page at any of w.urls.                                      *)
(***************************************************************************)
U_home == << "/","h","o","m","e" >>

U_cart == << "/","C","a","r","t" >>

\* A world bounds what the environment of one dispatch may do: the URLs the
\* page may be at after a driver operation, the outcomes of takeScreenshot
\* (captured and read, Screenshot failed, ReadFile failed), whether the
\* page-state capture before the action can succeed or fail, and the lines the
\* operator may type at the confirmation prompt.
World(urls, shots, captures, inputs) ==
    [urls |-> urls, shots |-> shots, captures |-> captures, inputs |-> inputs]

\* what an action executor hands back to handleAction, and what it did
ExecResult(err, reason, result, shot, lastU, pageU, calls) ==
    [err |-> err, reason |-> reason, result |-> result, shot |-> shot,
     lastURL |-> lastU, pageURL |-> pageU, calls |-> calls]

\* takeScreenshot: the calls it makes, for each way it can end
takeScreenshot(shot) ==
    CASE shot = "capture_failed" -> << "Screenshot" >>
      [] shot = "read_failed" -> << "Screenshot", "ReadFile" >>
      [] shot = "ok" -> << "Screenshot", "ReadFile", "Remove" >>

\* the file at tempPath after an executor that made these calls: Screenshot
\* wrote it if ReadFile was reached, os.Remove deleted it
TempFileAfter(file, calls) ==
    IF \E i \in 1..Len(calls) : calls[i] = "Remove" THEN "absent"
    ELSE IF \E i \in 1..Len(calls) : calls[i] = "ReadFile" THEN "present"
    ELSE file

\* the tail shared by actionClick, actionPress(Enter) and the search branch of
\* actionFill: screenshot only if the URL read now differs from the remembered one
AfterStateOnChange(oldURL, u, calls, w) ==
    IF oldURL # u
    THEN {ExecResult(NoError, "", "page_state", sh, u, u, calls \o takeScreenshot(sh)) :
             sh \in w.shots}
    ELSE {ExecResult(NoError, "", "page_state", "none", u, u, calls)}

actionNavigate(action, lastU, pageU, w) ==
    IF action.URL = << >>
    THEN {ExecResult(CodeInvalidArgument, "url cannot be empty", "", "none",
                     lastU, pageU, << >>)}
    ELSE {ExecResult(CodeActionFailed, "navigation_failed", "", "none",
                     lastU, pageU, << "Navigate" >>)}
         \cup {ExecResult(CodeInternal, "page_state_failed", "", "none",
                          lastU, u, << "Navigate", "GetPageState" >>) : u \in w.urls}
         \cup {ExecResult(NoError, "", "page_state", sh, u, u,
                          << "Navigate", "GetPageState" >> \o takeScreenshot(sh)) :
                  u \in w.urls, sh \in w.shots}

actionClick(action, lastU, pageU, w) ==
    IF action.Selector = << >>
    THEN {ExecResult(CodeInvalidArgument, "selector cannot be empty", "", "none",
                     lastU, pageU, << >>)}
    ELSE {ExecResult(CodeActionFailed, "click_failed", "", "none",
                     lastU, pageU, << "Click" >>)}
         \cup {ExecResult(CodeInternal, "page_state_failed", "", "none",
                          lastU, u, << "Click", "GetPageState" >>) : u \in w.urls}
         \cup UNION {AfterStateOnChange(lastU, u, << "Click", "GetPageState" >>, w) :
                        u \in w.urls}

actionFill(action, lastU, pageU, w) ==
    IF action.Selector = << >>
    THEN {ExecResult(CodeInvalidArgument, "selector cannot be empty", "", "none",
                     lastU, pageU, << >>)}
    ELSE LET isSearchField ==
                 \/ Contains(ToLower(action.Selector), W_search)
                 \/ Contains(ToLower(action.Selector), W_query)
                 \/ Contains(ToLower(action.Value), W_poisk)
         IN  {ExecResult(CodeActionFailed, "fill_failed", "", "none",
                         lastU, pageU, << "Fill" >>)}
             \cup
             IF isSearchField
             THEN {ExecResult(NoError, "", "filled_enter_failed", "none",
                              lastU, u, << "Fill", "Press" >>) : u \in w.urls}
                  \cup {ExecResult(NoError, "", "filled_enter_pressed", "none",
                                   lastU, u, << "Fill", "Press", "GetPageState" >>) :
                           u \in w.urls}
                  \cup UNION {AfterStateOnChange(lastU, u,
                                  << "Fill", "Press", "GetPageState" >>, w) : u \in w.urls}
             ELSE {ExecResult(NoError, "", "filled", "none", lastU, u, << "Fill" >>) :
                      u \in w.urls}

\* variant: a wait that reports nothing
actionWaitNoResult(action, lastU, pageU, w) ==
    {ExecResult(NoError, "", "", "none", lastU, pageU, << >>)}

actionWait(action, lastU, pageU, w) ==
    {ExecResult(NoError, "", "wait_completed", "none", lastU, pageU, << >>)}

actionScroll(action, lastU, pageU, w) ==
    {ExecResult(CodeActionFailed, "scroll_failed", "", "none",
                lastU, pageU, << "Scroll" >>)}
    \cup {ExecResult(CodeInternal, "page_state_failed", "", "none",
                     lastU, u, << "Scroll", "GetPageState" >>) : u \in w.urls}
    \cup {ExecResult(NoError, "", "page_state", "none", lastU, u,
                     << "Scroll", "GetPageState" >>) : u \in w.urls}

\* variant: a click at a point is followed by a screenshot only when the URL
\* read after it differs from the remembered one
actionClickCoordinatesOnChange(action, lastU, pageU, w) ==
    {ExecResult(CodeActionFailed, "click_coordinates_failed", "", "none",
                lastU, pageU, << "ClickAtCoordinates" >>)}
    \cup {ExecResult(CodeInternal, "page_state_failed", "", "none",
                     lastU, u, << "ClickAtCoordinates", "GetPageState" >>) :
             u \in w.urls}
    \cup UNION {AfterStateOnChange(lastU, u,
                    << "ClickAtCoordinates", "GetPageState" >>, w) : u \in w.urls}

actionClickCoordinates(action, lastU, pageU, w) ==
    {ExecResult(CodeActionFailed, "click_coordinates_failed", "", "none",
                lastU, pageU, << "ClickAtCoordinates" >>)}
    \cup {ExecResult(CodeInternal, "page_state_failed", "", "none",
                     lastU, u, << "ClickAtCoordinates", "GetPageState" >>) :
             u \in w.urls}
    \cup {ExecResult(NoError, "", "page_state", sh, u, u,
                     << "ClickAtCoordinates", "GetPageState" >> \o takeScreenshot(sh)) :
             u \in w.urls, sh \in w.shots}

actionPress(action, lastU, pageU, w) ==
    IF action.Value = << >>
    THEN {ExecResult(CodeInvalidArgument, "key cannot be empty", "", "none",
                     lastU, pageU, << >>)}
    ELSE {ExecResult(CodeActionFailed, "press_failed", "", "none",
                     lastU, pageU, << "Press" >>)}
         \cup
         IF action.Value = W_Enter
         THEN {ExecResult(CodeInternal, "page_state_failed", "", "none",
                          lastU, u, << "Press", "GetPageState" >>) : u \in w.urls}
              \cup UNION {AfterStateOnChange(lastU, u, << "Press", "GetPageState" >>, w) :
                             u \in w.urls}
         ELSE {ExecResult(NoError, "", "pressed_key", "none", lastU, u, << "Press" >>) :
                  u \in w.urls}

\* variant: an action of an unknown type is passed over as done
executeActionSkipUnknown(action, lastU, pageU, w) ==
    CASE action.Type = ActionTypeNavigate -> actionNavigate(action, lastU, pageU, w)
      [] action.Type = ActionTypeClick -> actionClick(action, lastU, pageU, w)
      [] action.Type = ActionTypeFill -> actionFill(action, lastU, pageU, w)
      [] action.Type = ActionTypeWait -> actionWait(action, lastU, pageU, w)
      [] action.Type = ActionTypeScroll -> actionScroll(action, lastU, pageU, w)
      [] action.Type = ActionTypeClickCoordinates ->
           actionClickCoordinates(action, lastU, pageU, w)
      [] action.Type = ActionTypePress -> actionPress(action, lastU, pageU, w)
      [] OTHER -> {ExecResult(NoError, "", "", "none", lastU, pageU, << >>)}

\* executeAction: the switch on action.Type
executeAction(action, lastU, pageU, w) ==
    CASE action.Type = ActionTypeNavigate -> actionNavigate(action, lastU, pageU, w)
      [] action.Type = ActionTypeClick -> actionClick(action, lastU, pageU, w)
      [] action.Type = ActionTypeFill -> actionFill(action, lastU, pageU, w)
      [] action.Type = ActionTypeWait -> actionWait(action, lastU, pageU, w)
      [] action.Type = ActionTypeScroll -> actionScroll(action, lastU, pageU, w)
      [] action.Type = ActionTypeClickCoordinates ->
           actionClickCoordinates(action, lastU, pageU, w)
      [] action.Type = ActionTypePress -> actionPress(action, lastU, pageU, w)
      [] OTHER -> {ExecResult(CodeInvalidArgument, "unknown_action_type", "", "none",
                              lastU, pageU, << >>)}

(***************************************************************************)
(* handleAction.  Everything one dispatch does, for every choice the       *)
(* environment has: whether the page-state capture before the action       *)
(* succeeds, what the operator types at the confirmation prompt, and what  *)
(* the browser does.                                                       *)
(***************************************************************************)
\* lines the operator may type at the prompt (or end of input)
ConfirmInputs ==
    { EOF, << >>, << "y" >>, << " ","Y","e","s","\n" >>, << "n","o" >>,
      << "y","e","s","!" >>, << "\t","Y"," " >> }

NoInput == << "none" >>

Step(action, success, error) ==
    [Action |-> action.Type, Success |-> success, Error |-> error]

AIMessage(role, kind, image) == [Role |-> role, Kind |-> kind, Image |-> image]

\* createMessageWithScreenshot: an image part only for a non-empty screenshot
createMessageWithScreenshot(role, kind, shot) == AIMessage(role, kind, shot = "ok")

\* err.Error() of a failed executor, as recorded in Step.Error
ErrorText(r) == r.reason

\* the outcome of one handleAction call
Handled(action, captured, asked, input, executed, err, steps, msgs, lastA, lastU, pageU, calls) ==
    [action |-> action, captured |-> captured, asked |-> asked, input |-> input,
     executed |-> executed, err |-> err, steps |-> steps, msgs |-> msgs,
     lastAction |-> lastA, lastURL |-> lastU, pageURL |-> pageU, calls |-> calls]
\* variant: a failed executor leaves no step
handleExecutedUnrecorded(action, captured, asked, input, r) ==
    IF r.err # NoError
    THEN Handled(action, captured, asked, input, TRUE, r.err,
                 << >>,
                 << AIMessage("user",
                              IF action.Type = ActionTypeClick
                              THEN "action_failed_use_coordinates"
                              ELSE "action_failed", FALSE) >>,
                 action, r.lastURL, r.pageURL, << "GetPageState" >> \o r.calls)
    ELSE Handled(action, captured, asked, input, TRUE, NoError,
                 << Step(action, TRUE, "") >>,
                 IF r.result # ""
                 THEN << createMessageWithScreenshot("user", r.result, r.shot) >>
                 ELSE << >>,
                 action, r.lastURL, r.pageURL, << "GetPageState" >> \o r.calls)

\* variant: every failed action is answered with the coordinate-click guidance
handleExecutedGuidanceAlways(action, captured, asked, input, r) ==
    IF r.err # NoError
    THEN Handled(action, captured, asked, input, TRUE, r.err,
                 << Step(action, FALSE, ErrorText(r)) >>,
                 << AIMessage("user", "action_failed_use_coordinates", FALSE) >>,
                 action, r.lastURL, r.pageURL, << "GetPageState" >> \o r.calls)
    ELSE Handled(action, captured, asked, input, TRUE, NoError,
                 << Step(action, TRUE, "") >>,
                 IF r.result # ""
                 THEN << createMessageWithScreenshot("user", r.result, r.shot) >>
                 ELSE << >>,
                 action, r.lastURL, r.pageURL, << "GetPageState" >> \o r.calls)

\* lines 741-777: the executor ran and returned r
handleExecuted(action, captured, asked, input, r) ==
    IF r.err # NoError
    THEN Handled(action, captured, asked, input, TRUE, r.err,
                 << Step(action, FALSE, ErrorText(r)) >>,
                 << AIMessage("user",
                              IF action.Type = ActionTypeClick
                              THEN "action_failed_use_coordinates"
                              ELSE "action_failed", FALSE) >>,
                 action, r.lastURL, r.pageURL, << "GetPageState" >> \o r.calls)
    ELSE Handled(action, captured, asked, input, TRUE, NoError,
                 << Step(action, TRUE, "") >>,
                 IF r.result # ""
                 THEN << createMessageWithScreenshot("user", r.result, r.shot) >>
                 ELSE << >>,
                 action, r.lastURL, r.pageURL, << "GetPageState" >> \o r.calls)

\* the set of outcomes of handleAction(action) in service state (lastA, lastU)
\* with the page at pageU
handleAction(action, lastA, lastU, pageU, w) ==
    UNION {
      LET currentURL == IF captured THEN pageU ELSE << >>
      IN  IF isDuplicateAction(lastA, action)
          THEN {Handled(action, captured, FALSE, NoInput, FALSE, CodeDuplicateAction,
                        << Step(action, FALSE, "duplicate action detected") >>,
                        << AIMessage("user", "duplicate_try_different", FALSE) >>,
                        lastA, lastU, pageU, << "GetPageState" >>)}
          ELSE IF shouldConfirm(action, currentURL)
          THEN UNION {
                 IF ~requestUserConfirmation(input)
                 THEN {Handled(action, captured, TRUE, input, FALSE, CodeCancelledByUser,
                               << Step(action, FALSE, "action cancelled by user") >>,
                               << AIMessage("user", "cancelled_try_different", FALSE) >>,
                               lastA, lastU, pageU, << "GetPageState" >>)}
                 ELSE {handleExecuted(action, captured, TRUE, input, r) :
                          r \in executeAction(action, lastU, pageU, w)}
                 : input \in w.inputs }
          ELSE {handleExecuted(action, captured, FALSE, NoInput, r) :
                   r \in executeAction(action, lastU, pageU, w)}
      : captured \in w.captures }

(***************************************************************************)
(* State of one AgentService, of the task it is executing, and of its      *)
(* environment.                                                            *)
(***************************************************************************)
VARIABLES
    pc,                 \* where Execute is: idle, init, loop, select, runcheck,
                        \* call, dispatch, done (returned)
    running,            \* s.running
    stopChan,           \* s.stopChan: "open" or "closed"
    lastURL,            \* s.lastURL
    lastAction,         \* s.lastAction
    iteration,          \* Execute's local iteration
    consecutiveErrors,  \* Execute's local consecutiveErrors
    task,               \* the entity.Task of the current Execute call
    messages,           \* Execute's local messages
    pending,            \* response.Action handed to handleAction
    ret,                \* what Execute returned: [task, err]
    stopPc,             \* where a Stop() call is: idle, or before close(s.stopChan)
    panicked,           \* the process died of close of a closed channel
    ctxDone,            \* ctx.Done() is closed
    pageURL,            \* the URL the page is at
    nExec,              \* Execute calls started
    modelCalls,         \* SendMessage calls of the current Execute call
    aiFailRun,          \* SendMessage calls that failed in a row, up to now
    aiFailed,           \* some SendMessage call of the current Execute call failed
    lastResp,           \* what the latest SendMessage call of this Execute returned
    entry,              \* the arguments and the readiness the latest Execute saw
    maxFailRun,         \* the longest such run in the current Execute call
    stopAt,             \* where Execute was when Stop() was last called during it
    gate,               \* an input of the safety gate and the gate's answer
    browser,            \* the browser Manager and the operation it is running
    observation,        \* a page state and what optimizePageState made of it
    tempFile,           \* the file at takeScreenshot's tempPath: absent or present
    console,            \* the console Interface: its stopping flag, its signal
                        \* goroutine, the OnStop hook, the process
    synth,              \* an element handed to generateSelector, and the selector
    parsed,             \* an API response handed to parseResponse, and the result
    nDispatch,          \* handleAction calls of the service
    nThoughts,          \* responses with a Thought the service has received
    disp,               \* what the latest handleAction call did
    prevAct             \* the action of the handleAction call before that one

callGhosts == << modelCalls, aiFailRun, aiFailed, maxFailRun, lastResp, entry >>

budgetGhosts == << nDispatch, nThoughts >>

dispGhosts == << disp, prevAct >>

vars ==
    << pc, running, stopChan, lastURL, lastAction, iteration, consecutiveErrors,
       task, messages, pending, ret, stopPc, panicked, ctxDone, pageURL, nExec,
       callGhosts, budgetGhosts, dispGhosts, stopAt, gate, browser, observation, tempFile,
                    console, synth, parsed >>

TaskStatusInProgress == "in_progress"

TaskStatusCompleted == "completed"

TaskStatusFailed == "failed"

NoTask == [Status |-> "nil"]

NoDispatch == [action |-> NoAction]

\* SendMessage has not been called in this Execute
NoResponse == [ok |-> FALSE, called |-> FALSE]

\* Execute has not been called
NoEntry == [taskDescription |-> "none", isReady |-> FALSE]

\* optimizePageState has not been given a page state
\* NewInterface: the console before Start
NewInterface ==
    [stopping |-> FALSE, started |-> FALSE, main |-> "none", cmds |-> 0,
     handler |-> "waiting", sigAt |-> "none", hook |-> "idle", exited |-> FALSE]

\* no element has been handed to generateSelector
NoElement == [done |-> FALSE]

\* no response has been handed to parseResponse
NoReply == [done |-> FALSE]

NoObservation == [elements |-> << >>, done |-> FALSE]

\* an operation of the Manager has not returned
NoReturn == [Code |-> "none"]

\* an operation of the Manager returned nil
ReturnNil == [Code |-> "nil"]

\* NewManager: no playwright objects yet, not ready, no operation called
NewManager ==
    [ready |-> FALSE, browserContext |-> "nil", page |-> "nil", pages |-> 0,
     seen |-> [browserContext |-> "nil", page |-> "nil", pages |-> 0],
     checked |-> "nil", op |-> "none",
     selector |-> << >>, phase |-> "idle", attemptNum |-> 0, tried |-> << >>,
     calls |-> << >>, lastErr |-> "nil", err |-> NoReturn, wasReady |-> FALSE,
     closed |-> FALSE, wasClosed |-> FALSE]

\* the safety gate has not been consulted
NoGate == [action |-> NoAction, url |-> << >>, checked |-> FALSE, confirm |-> FALSE]

NewTask ==
    [Status |-> TaskStatusInProgress, Steps |-> << >>, Result |-> "", Error |-> "",
     CompletedAt |-> FALSE]

Failed(t, text) == [t EXCEPT !.Status = TaskStatusFailed, !.Error = text]

\* NewAgentService, and the environment before the first Execute
InitService ==
    /\ pc = "idle"
    /\ running = FALSE
    /\ stopChan = "open"
    /\ lastURL = << >>
    /\ lastAction = NoAction
    /\ iteration = 0
    /\ consecutiveErrors = 0
    /\ task = NoTask
    /\ messages = << >>
    /\ pending = NoAction
    /\ ret = [task |-> "none", err |-> NoError]
    /\ stopPc = "idle"
    /\ panicked = FALSE
    /\ ctxDone = FALSE
    /\ pageURL = U_home
    /\ nExec = 0
    /\ modelCalls = 0
    /\ aiFailRun = 0
    /\ aiFailed = FALSE
    /\ maxFailRun = 0
    /\ lastResp = NoResponse
    /\ entry = NoEntry
    /\ stopAt = "none"
    /\ nDispatch = 0
    /\ nThoughts = 0
    /\ disp = NoDispatch
    /\ prevAct = NoAction

Init ==
    /\ InitService
    /\ gate = NoGate
    /\ browser = NewManager
    /\ observation = NoObservation
    /\ tempFile = "absent"
    /\ console = NewInterface
    /\ synth = NoElement
    /\ parsed = NoReply

\* Execute returns (t, err)
Return(t, err) ==
    /\ task' = t
    /\ ret' = [task |-> IF t = NoTask THEN "nil" ELSE "task", err |-> err]
    /\ pc' = "done"
\* variant: the browser is not asked whether it is ready
ExecuteEntryNoReadinessCheck(taskDescription, isReady) ==
    /\ pc \in {"idle", "done"}
    /\ ~panicked
    /\ nExec < MaxExecutes
    /\ nExec' = nExec + 1
    /\ IF taskDescription = ""
       THEN /\ Return(NoTask, CodeInvalidArgument)
            /\ UNCHANGED << running, messages >>
       ELSE IF ~isReady /\ taskDescription = ""
       THEN /\ Return(Failed(NewTask, "browser is not ready"), CodeBrowserNotReady)
            /\ UNCHANGED << running, messages >>
       ELSE /\ task' = NewTask
            /\ messages' = << AIMessage("user", "system_prompt", FALSE) >>
            /\ running' = TRUE
            /\ pc' = "init"
            /\ ret' = [task |-> "none", err |-> NoError]
    /\ modelCalls' = 0
    /\ aiFailRun' = 0
    /\ aiFailed' = FALSE
    /\ maxFailRun' = 0
    /\ lastResp' = NoResponse
    /\ entry' = [taskDescription |-> taskDescription, isReady |-> isReady]
    /\ stopAt' = "none"
    /\ UNCHANGED << stopChan, lastURL, lastAction, iteration, consecutiveErrors,
                    pending, stopPc, panicked, ctxDone, pageURL, budgetGhosts,
                    dispGhosts, gate, browser, observation, tempFile,
                    console, synth, parsed >>

(***************************************************************************)
(* Execute, lines 530-561: argument and readiness checks, the task, the    *)
(* first message, s.running = true.                                        *)
(***************************************************************************)
ExecuteEntry(taskDescription, isReady) ==
    /\ pc \in {"idle", "done"}
    /\ ~panicked
    /\ nExec < MaxExecutes
    /\ nExec' = nExec + 1
    /\ IF taskDescription = ""
       THEN /\ Return(NoTask, CodeInvalidArgument)
            /\ UNCHANGED << running, messages >>
       ELSE IF ~isReady
       THEN /\ Return(Failed(NewTask, "browser is not ready"), CodeBrowserNotReady)
            /\ UNCHANGED << running, messages >>
       ELSE /\ task' = NewTask
            /\ messages' = << AIMessage("user", "system_prompt", FALSE) >>
            /\ running' = TRUE
            /\ pc' = "init"
            /\ ret' = [task |-> "none", err |-> NoError]
    /\ modelCalls' = 0
    /\ aiFailRun' = 0
    /\ aiFailed' = FALSE
    /\ maxFailRun' = 0
    /\ lastResp' = NoResponse
    /\ entry' = [taskDescription |-> taskDescription, isReady |-> isReady]
    /\ stopAt' = "none"
    /\ UNCHANGED << stopChan, lastURL, lastAction, iteration, consecutiveErrors,
                    pending, stopPc, panicked, ctxDone, pageURL, budgetGhosts,
                    dispGhosts, gate, browser, observation, tempFile,
                    console, synth, parsed >>

\* Execute, lines 562-564: a fresh stop channel, the counters
ExecuteInit ==
    /\ pc = "init"
    /\ ~panicked
    /\ stopChan' = "open"
    /\ iteration' = 0
    /\ consecutiveErrors' = 0
    /\ pc' = "loop"
    /\ UNCHANGED << running, lastURL, lastAction, task, messages, pending, ret,
                    stopPc, panicked, ctxDone, pageURL, nExec, callGhosts,
                    budgetGhosts, dispGhosts, stopAt, gate, browser, observation, tempFile,
                    console, synth, parsed >>

\* variant: the budget is one iteration long
loopContinuesLong(r, it) == r /\ it < maxIterations + 1

\* variant: the budget is one iteration short
loopContinuesShort(r, it) == r /\ it < maxIterations - 1

\* the loop condition, line 566
loopContinues(r, it) == r /\ it < maxIterations

\* line 566, and lines 664-671 when the loop is left
LoopCond ==
    /\ pc = "loop"
    /\ ~panicked
    /\ IF loopContinues(running, iteration)
       THEN pc' = "select" /\ UNCHANGED << task, ret >>
       ELSE IF iteration >= maxIterations
       THEN Return(Failed(task, "max iterations reached"), CodeMaxIterations)
       ELSE Return(task, NoError)
    /\ UNCHANGED << running, stopChan, lastURL, lastAction, iteration,
                    consecutiveErrors, messages, pending, stopPc, panicked, ctxDone,
                    pageURL, nExec, callGhosts, budgetGhosts, dispGhosts, stopAt, gate, browser, observation, tempFile,
                    console, synth, parsed >>

\* variant: the default case may be taken when another case is ready
SelectDefaultAnyway ==
    /\ pc = "select"
    /\ ~panicked
    /\ \/ /\ ctxDone
          /\ Return(Failed(task, "context cancelled"), CodeInternal)
       \/ /\ stopChan = "closed"
          /\ Return(Failed(task, "stopped by user"), CodeCancelledByUser)
       \/ /\ pc' = "runcheck"
          /\ UNCHANGED << task, ret >>
    /\ UNCHANGED << running, stopChan, lastURL, lastAction, iteration,
                    consecutiveErrors, messages, pending, stopPc, panicked, ctxDone,
                    pageURL, nExec, callGhosts, budgetGhosts, dispGhosts, stopAt, gate, browser, observation, tempFile,
                    console, synth, parsed >>

\* the select of lines 568-585: one of the ready cases, default when none is
Select ==
    /\ pc = "select"
    /\ ~panicked
    /\ \/ /\ ctxDone
          /\ Return(Failed(task, "context cancelled"), CodeInternal)
       \/ /\ stopChan = "closed"
          /\ Return(Failed(task, "stopped by user"), CodeCancelledByUser)
       \/ /\ ~ctxDone
          /\ stopChan # "closed"
          /\ pc' = "runcheck"
          /\ UNCHANGED << task, ret >>
    /\ UNCHANGED << running, stopChan, lastURL, lastAction, iteration,
                    consecutiveErrors, messages, pending, stopPc, panicked, ctxDone,
                    pageURL, nExec, callGhosts, budgetGhosts, dispGhosts, stopAt, gate, browser, observation, tempFile,
                    console, synth, parsed >>

\* lines 587-595: the second look at s.running, then iteration++
RunCheck ==
    /\ pc = "runcheck"
    /\ ~panicked
    /\ IF ~running
       THEN /\ Return(Failed(task, "stopped by user"), CodeCancelledByUser)
            /\ UNCHANGED iteration
       ELSE /\ iteration' = iteration + 1
            /\ pc' = "call"
            /\ UNCHANGED << task, ret >>
    /\ UNCHANGED << running, stopChan, lastURL, lastAction, consecutiveErrors,
                    messages, pending, stopPc, panicked, ctxDone, pageURL, nExec,
                    callGhosts, budgetGhosts, dispGhosts, stopAt, gate, browser, observation, tempFile,
                    console, synth, parsed >>

(***************************************************************************)
(* The model call, lines 600-640 (and 642 when the response has an action). *)
(***************************************************************************)
AIFailure == [ok |-> FALSE]

AIResponse(thought, complete, action, result) ==
    [ok |-> TRUE, Thought |-> thought, Complete |-> complete, Action |-> action,
     Result |-> result]

\* What SendMessage may return.  The model draws its actions from `universe`
\* while the service has dispatched fewer than maxDispatch actions, answers
\* without action and without completing only before the task's first step, and
\* adds a Thought at most MaxThoughts times, in the first calls of a task.
Responses(universe, maxDispatch, steps) ==
    LET thoughts == IF nThoughts < MaxThoughts /\ modelCalls < MaxThoughts
                    THEN {"", "thought"} ELSE {""}
        actions == IF nDispatch < maxDispatch THEN universe ELSE {}
    IN  {AIFailure}
        \cup {AIResponse(th, TRUE, a, r) :
                 th \in thoughts, a \in {NoAction} \cup actions, r \in {"", "result"}}
        \cup {AIResponse(th, FALSE, a, "") : th \in thoughts, a \in actions}
        \cup (IF steps = << >> THEN {AIResponse("", FALSE, NoAction, "")} ELSE {})

\* line 603
countError(c) == c + 1

\* variant: a success leaves the counter as it is
resetErrorsKeep(c) == c

\* lines 620 and 657
resetErrors(c) == 0

\* variant: one more failure is tolerated
tooManyErrorsLenient(c) == c > maxConsecutiveErrors

\* lines 605 and 647
tooManyErrors(c) == c >= maxConsecutiveErrors
\* variant: a response with an action is dispatched before completion is looked at
SendMessageActionFirst(resp) ==
    /\ pc = "call"
    /\ ~panicked
    /\ modelCalls' = modelCalls + 1
    /\ lastResp' = resp
    /\ UNCHANGED entry
    /\ IF ~resp.ok
       THEN /\ consecutiveErrors' = countError(consecutiveErrors)
            /\ aiFailRun' = aiFailRun + 1
            /\ aiFailed' = TRUE
            /\ maxFailRun' = IF aiFailRun' > maxFailRun THEN aiFailRun' ELSE maxFailRun
            /\ IF tooManyErrors(consecutiveErrors')
               THEN Return(Failed(task, "too many AI errors"), CodeAIError)
               ELSE pc' = "loop" /\ UNCHANGED << task, ret >>
            /\ UNCHANGED << messages, pending >>
       ELSE /\ consecutiveErrors' = resetErrors(consecutiveErrors)
            /\ aiFailRun' = 0
            /\ UNCHANGED << aiFailed, maxFailRun >>
            /\ messages' = IF resp.Thought # ""
                           THEN Append(messages, AIMessage("assistant", "thought", FALSE))
                           ELSE messages
            /\ IF resp.Complete /\ resp.Action = NoAction
               THEN /\ Return([task EXCEPT !.Status = TaskStatusCompleted,
                                           !.Result = resp.Result,
                                           !.CompletedAt = TRUE], NoError)
                    /\ UNCHANGED pending
               ELSE IF resp.Action # NoAction
               THEN /\ pending' = resp.Action
                    /\ pc' = "dispatch"
                    /\ UNCHANGED << task, ret >>
               ELSE /\ pc' = "loop"
                    /\ UNCHANGED << task, ret, pending >>
    /\ nThoughts' = IF resp.ok /\ resp.Thought # "" THEN nThoughts + 1 ELSE nThoughts
    /\ UNCHANGED << running, stopChan, lastURL, lastAction, iteration, stopPc,
                    panicked, ctxDone, pageURL, nExec, nDispatch, dispGhosts, stopAt,
                    gate, browser, observation, tempFile,
                    console, synth, parsed >>

SendMessage(resp) ==
    /\ pc = "call"
    /\ ~panicked
    /\ modelCalls' = modelCalls + 1
    /\ lastResp' = resp
    /\ UNCHANGED entry
    /\ IF ~resp.ok
       THEN /\ consecutiveErrors' = countError(consecutiveErrors)
            /\ aiFailRun' = aiFailRun + 1
            /\ aiFailed' = TRUE
            /\ maxFailRun' = IF aiFailRun' > maxFailRun THEN aiFailRun' ELSE maxFailRun
            /\ IF tooManyErrors(consecutiveErrors')
               THEN Return(Failed(task, "too many AI errors"), CodeAIError)
               ELSE pc' = "loop" /\ UNCHANGED << task, ret >>
            /\ UNCHANGED << messages, pending >>
       ELSE /\ consecutiveErrors' = resetErrors(consecutiveErrors)
            /\ aiFailRun' = 0
            /\ UNCHANGED << aiFailed, maxFailRun >>
            /\ messages' = IF resp.Thought # ""
                           THEN Append(messages, AIMessage("assistant", "thought", FALSE))
                           ELSE messages
            /\ IF resp.Complete
               THEN /\ Return([task EXCEPT !.Status = TaskStatusCompleted,
                                           !.Result = resp.Result,
                                           !.CompletedAt = TRUE], NoError)
                    /\ UNCHANGED pending
               ELSE IF resp.Action # NoAction
               THEN /\ pending' = resp.Action
                    /\ pc' = "dispatch"
                    /\ UNCHANGED << task, ret >>
               ELSE /\ pc' = "loop"
                    /\ UNCHANGED << task, ret, pending >>
    /\ nThoughts' = IF resp.ok /\ resp.Thought # "" THEN nThoughts + 1 ELSE nThoughts
    /\ UNCHANGED << running, stopChan, lastURL, lastAction, iteration, stopPc,
                    panicked, ctxDone, pageURL, nExec, nDispatch, dispGhosts, stopAt,
                    gate, browser, observation, tempFile,
                    console, synth, parsed >>

(***************************************************************************)
(* Lines 643-661: handleAction on the pending action, then the error       *)
(* accounting of the loop.                                                 *)
(***************************************************************************)
Dispatch(w) ==
    /\ pc = "dispatch"
    /\ ~panicked
    /\ nDispatch' = nDispatch + 1
    /\ \E h \in handleAction(pending, lastAction, lastURL, pageURL, w) :
          LET t == [task EXCEPT !.Steps = task.Steps \o h.steps]
          IN  /\ messages' = messages \o h.msgs
              /\ lastAction' = h.lastAction
              /\ lastURL' = h.lastURL
              /\ pageURL' = h.pageURL
              /\ tempFile' = TempFileAfter(tempFile, h.calls)
              /\ disp' = [action |-> h.action, captured |-> h.captured,
                          asked |-> h.asked, input |-> h.input,
                          executed |-> h.executed, err |-> h.err, calls |-> h.calls,
                          urlBefore |-> pageURL, nSteps |-> Len(task.Steps),
                          nMsgs |-> Len(messages), nExec |-> nExec,
                          interrupted |-> ctxDone \/ ~running]
              /\ prevAct' = disp.action
              /\ IF h.err # NoError
                 THEN /\ consecutiveErrors' = countError(consecutiveErrors)
                      /\ IF tooManyErrors(consecutiveErrors')
                         THEN Return(Failed(t, "too many consecutive action errors"),
                                     CodeActionFailed)
                         ELSE task' = t /\ pc' = "loop" /\ UNCHANGED ret
                 ELSE /\ consecutiveErrors' = resetErrors(consecutiveErrors)
                      /\ task' = t
                      /\ pc' = "loop"
                      /\ UNCHANGED ret
    /\ pending' = NoAction
    /\ UNCHANGED << running, stopChan, iteration, stopPc, panicked, ctxDone, nExec,
                    callGhosts, nThoughts, stopAt, gate, browser, observation,
                    console, synth, parsed >>

(***************************************************************************)
(* Stop(), lines 679-680, called from another goroutine: two steps.        *)
(***************************************************************************)
StopBegin ==
    /\ stopPc = "idle"
    /\ ~panicked
    /\ running' = FALSE
    /\ stopPc' = "close"
    /\ stopAt' = IF pc \in {"idle", "done"} THEN stopAt ELSE pc
    /\ UNCHANGED << pc, stopChan, lastURL, lastAction, iteration, consecutiveErrors,
                    task, messages, pending, ret, panicked, ctxDone, pageURL, nExec,
                    callGhosts, budgetGhosts, dispGhosts, gate, browser, observation, tempFile,
                    console, synth, parsed >>

\* variant: Stop also marks the task of the service as stopped
StopCloseMarksTask ==
    /\ stopPc = "close"
    /\ ~panicked
    /\ IF stopChan = "closed"
       THEN panicked' = TRUE /\ UNCHANGED << stopChan, stopPc >>
       ELSE stopChan' = "closed" /\ stopPc' = "idle" /\ UNCHANGED panicked
    /\ task' = IF task = NoTask THEN task ELSE Failed(task, "stopped by user")
    /\ UNCHANGED << pc, running, lastURL, lastAction, iteration, consecutiveErrors,
                    messages, pending, ret, ctxDone, pageURL, nExec,
                    callGhosts, budgetGhosts, dispGhosts, stopAt, gate, browser,
                    observation, tempFile,
                    console, synth, parsed >>

\* close(s.stopChan): closing a closed channel panics
StopClose ==
    /\ stopPc = "close"
    /\ ~panicked
    /\ IF stopChan = "closed"
       THEN panicked' = TRUE /\ UNCHANGED << stopChan, stopPc >>
       ELSE stopChan' = "closed" /\ stopPc' = "idle" /\ UNCHANGED panicked
    /\ UNCHANGED << pc, running, lastURL, lastAction, iteration, consecutiveErrors,
                    task, messages, pending, ret, ctxDone, pageURL, nExec,
                    callGhosts, budgetGhosts, dispGhosts, stopAt, gate, browser, observation, tempFile,
                    console, synth, parsed >>

\* the caller cancels the context it passed to Execute
CancelContext ==
    /\ ~ctxDone
    /\ ~panicked
    /\ ctxDone' = TRUE
    /\ UNCHANGED << pc, running, stopChan, lastURL, lastAction, iteration,
                    consecutiveErrors, task, messages, pending, ret, stopPc, panicked,
                    pageURL, nExec, callGhosts, budgetGhosts, dispGhosts, stopAt, gate, browser, observation, tempFile,
                    console, synth, parsed >>

(***************************************************************************)
(* The actions the model emits.                                            *)
(***************************************************************************)
Navigate(url) == BrowserAction(ActionTypeNavigate, << >>, << >>, url, 0, 0, 0)

Click(selector) == BrowserAction(ActionTypeClick, selector, << >>, << >>, 0, 0, 0)

Fill(selector, value) == BrowserAction(ActionTypeFill, selector, value, << >>, 0, 0, 0)

Press(key) == BrowserAction(ActionTypePress, << >>, key, << >>, 0, 0, 0)

Scroll(direction, amount) ==
    BrowserAction(ActionTypeScroll, << >>, direction, << >>, amount, 0, 0)

ClickAt(x, y) == BrowserAction(ActionTypeClickCoordinates, << >>, << >>, << >>, 0, x, y)

Wait(ms) == BrowserAction(ActionTypeWait, << >>, << >>, << >>, ms, 0, 0)

\* an action of a type executeAction does not know
Hover(selector) == BrowserAction("hover", selector, << >>, << >>, 0, 0, 0)

S_pay == << "#","P","a","y" >>

S_ok == << "#","o","k" >>

S_pin == << "#","p","i","n" >>

S_q == << "#","q" >>

V_shoes == << "s","h","o","e","s" >>

K_Tab == << "T","a","b" >>

D_down == << "d","o","w","n" >>

\* the loop specification: one action, which may succeed or fail each time
LoopActions == { Press(K_Tab) }

\* the dispatcher specification: every action type, a sensitive and a harmless
\* Fill and Click, a Fill of a search field, Enter and another key
DispatchActions ==
    { Navigate(U_cart), Click(S_pay), Click(S_ok), Fill(S_pin, V_shoes),
      Fill(S_q, V_shoes), Fill(<< "#" >> \o W_search, V_shoes), Press(W_Enter),
      Press(K_Tab), Scroll(D_down, 500), ClickAt(10, 20), Wait(1000),
      Navigate(<< >>), Click(<< >>), Fill(<< >>, V_shoes), Fill(<< >>, W_remove),
      Press(<< >>), Hover(S_ok) }

\* the loop specification: a page that stays at one URL, screenshots that
\* succeed, a capture that succeeds
LoopWorld == World({U_home}, {"ok"}, {TRUE}, ConfirmInputs)

\* the dispatcher specification: a page that moves between two URLs, every
\* screenshot outcome, a capture that may fail
DispatchWorld == World({U_home, U_cart}, {"ok", "capture_failed", "read_failed"},
                       BOOLEAN, ConfirmInputs)

(***************************************************************************)
(* Spec: the agent loop with Stop and cancellation, over LoopActions.      *)
(***************************************************************************)
ModelCall ==
    /\ pc = "call"
    /\ \E resp \in Responses(LoopActions, MaxDispatch, task.Steps) :
          SendMessage(resp)

Execute == \E d \in {"", "task"}, rdy \in BOOLEAN : ExecuteEntry(d, rdy)

Next ==
    \/ Execute
    \/ ExecuteInit
    \/ LoopCond
    \/ Select
    \/ RunCheck
    \/ ModelCall
    \/ Dispatch(LoopWorld)
    \/ StopBegin
    \/ StopClose
    \/ CancelContext

Spec == Init /\ [][Next]_vars

\* the steps of Execute itself: they are taken whenever every SendMessage and
\* every browser call returns
ExecuteStep ==
    \/ ExecuteInit
    \/ LoopCond
    \/ Select
    \/ RunCheck
    \/ ModelCall
    \/ Dispatch(LoopWorld)

\* Spec with an Execute that is not held up for ever
LiveSpec == Spec /\ WF_vars(ExecuteStep)

(***************************************************************************)
(* SpecD: the dispatcher.  The same Execute, with a model that answers     *)
(* every call with an action of DispatchActions or with completion, a      *)
(* browser that behaves as DispatchWorld allows, and no Stop or            *)
(* cancellation.                                                           *)
(***************************************************************************)
ResponsesD(universe, maxDispatch) ==
    {AIResponse("", TRUE, NoAction, "result")}
    \cup {AIResponse("", FALSE, a, "") :
             a \in IF nDispatch < maxDispatch THEN universe ELSE {}}

ModelCallD ==
    /\ pc = "call"
    /\ \E resp \in ResponsesD(DispatchActions, MaxDispatchD) : SendMessage(resp)

NextD ==
    \/ Execute
    \/ ExecuteInit
    \/ LoopCond
    \/ Select
    \/ RunCheck
    \/ ModelCallD
    \/ Dispatch(DispatchWorld)

SpecD == Init /\ [][NextD]_vars

(***************************************************************************)
(* SpecGate: shouldConfirm as a function.  An input is drawn at the start, *)
(* the gate is applied to it once.                                         *)
(***************************************************************************)
S_Password == << "#","P","a","s","s","w","o","r","d" >>

S_CARD == << "#","C","A","R","D" >>

S_cvv == << "#","c","v","v","2" >>

S_shipping == << "#","s","h","i","p","p","i","n","g" >>

S_Code == << "#","C","o","d","e" >>

S_name == << "#","n","a","m","e" >>

S_Delete == << "#","D","e","l","e","t","e" >>

S_Kupit == << "CY_k","cy_u","cy_p","cy_i","cy_t","cy_soft" >>

V_empty == << >>

V_123456 == << "1","2","3","4","5","6" >>

V_1234567 == << "1","2","3","4","5","6","7" >>

V_password == << "p","a","s","s","w","o","r","d" >>

V_card == << "c","a","r","d"," ","4","1","1","1" >>

V_DeleteAll == << "D","e","l","e","t","e"," ","a","l","l" >>

V_REMOVE == << "R","E","M","O","V","E" >>

V_Udalit == << "CY_u","cy_d","cy_a","cy_l","cy_i","cy_t","cy_soft" >>

\* four characters, eight bytes
V_udal == << "cy_u","cy_d","cy_a","cy_l" >>

U_checkout == << "/","c","h","e","c","k","o","u","t" >>

U_Oplata == << "/","CY_o","cy_p","cy_l","cy_a","cy_t","cy_a" >>

GateSelectors ==
    { S_q, S_Password, S_CARD, S_cvv, S_pin, S_shipping, S_Code, S_name }

GateValues ==
    { V_shoes, V_empty, V_123456, V_1234567, V_password, V_card, V_DeleteAll,
      V_REMOVE, V_Udalit, V_udal }

GateClickSelectors == { S_pay, S_ok, S_Delete, S_Kupit }

GateURLs == { << >>, U_home, U_cart, U_checkout, U_Oplata }

\* actions of the other types, plain and with every field a Fill or a Click
\* would be stopped for
GateOtherActions ==
    { Navigate(U_checkout), Press(V_DeleteAll), Scroll(V_REMOVE, 500), ClickAt(10, 20),
      Wait(1000) }
    \cup { BrowserAction(ty, sel, v, U_Oplata, 0, 10, 20) :
             ty \in { ActionTypeNavigate, ActionTypePress, ActionTypeScroll,
                      ActionTypeClickCoordinates, ActionTypeWait },
             sel \in { S_Password, S_pay }, v \in { V_123456, V_Udalit } }

GateInputs ==
    {[action |-> Fill(sel, v), url |-> u, checked |-> FALSE, confirm |-> FALSE] :
        sel \in GateSelectors, v \in GateValues, u \in {U_home}}
    \cup {[action |-> Click(sel), url |-> u, checked |-> FALSE, confirm |-> FALSE] :
             sel \in GateClickSelectors, u \in GateURLs}
    \cup {[action |-> a, url |-> u, checked |-> FALSE, confirm |-> FALSE] :
             a \in GateOtherActions, u \in GateURLs}

InitGate ==
    /\ InitService
    /\ gate \in GateInputs
    /\ browser = NewManager
    /\ observation = NoObservation
    /\ tempFile = "absent"
    /\ console = NewInterface
    /\ synth = NoElement
    /\ parsed = NoReply

\* line 726: the gate's answer for the input
GateCheck ==
    /\ ~gate.checked
    /\ gate' = [gate EXCEPT !.checked = TRUE,
                            !.confirm = shouldConfirm(gate.action, gate.url)]
    /\ UNCHANGED << pc, running, stopChan, lastURL, lastAction, iteration,
                    consecutiveErrors, task, messages, pending, ret, stopPc, panicked,
                    ctxDone, pageURL, nExec, callGhosts, budgetGhosts, dispGhosts,
                    stopAt, browser, observation, tempFile,
                    console, synth, parsed >>

NextGate == GateCheck

SpecGate == InitGate /\ [][NextGate]_vars

(***************************************************************************)
(* The browser Manager (src/unnamed/part_003): the readiness check every   *)
(* operation starts with, the strategies of Click and the retries of Fill. *)
(* One step of the model is the prologue of an operation together with the *)
(* body of a single-call operation, or one attempt of Click or Fill.  What *)
(* the page answers is the environment's choice.                           *)
(***************************************************************************)
maxRetries == 3

CodeNotFound == "not_found"

CodeTimeout == "timeout"

\* apperr.Wrap: the error value an operation returns
Wrap(op, code, err, metadata) ==
    [Op |-> op, Code |-> code, Err |-> err, Metadata |-> metadata]

WrapErrorWithReason(op, code, reason) == Wrap(op, code, reason, [reason |-> reason])

BrowserSelectors == { S_pay, S_pin }

\* the operations of the Manager that act on the page
Operations ==
    { "Navigate", "Click", "ClickAtCoordinates", "Fill", "Press", "Scroll",
      "WaitForSelector", "GetElementText", "Screenshot", "GetPageState",
      "GetElements", "EvaluateJS" }

\* the operations that take a selector
SelectorOperations == { "Click", "Fill", "WaitForSelector", "GetElementText" }

\* one outcome of a piece of code that talks to the page: the error it ends
\* with ("nil" for none) and the calls it made on the page or the driver
Outcome(err, calls) == [err |-> err, calls |-> calls]

\* variant: a closed page is always replaced by a new one
ensurePageActiveNewPageOnly(b) ==
    IF b.browserContext = "nil"
    THEN {[err |-> "browser context is nil", page |-> b.page, pages |-> b.pages,
           calls |-> << >>]}
    ELSE IF b.page = "open"
    THEN {[err |-> "nil", page |-> "open", pages |-> b.pages,
           calls |-> << "IsClosed" >>]}
    ELSE LET seen == IF b.page = "nil" THEN << >> ELSE << "IsClosed" >>
         IN  {[err |-> "failed to create new page", page |-> b.page,
               pages |-> b.pages, calls |-> seen \o << "Pages", "NewPage" >>]}
             \cup IF b.browserContext = "open"
                  THEN {[err |-> "nil", page |-> "open", pages |-> b.pages,
                         calls |-> seen \o << "Pages", "NewPage" >>]}
                  ELSE {}

\* ensurePageActive: the outcomes, each with the page the Manager then holds
\* and the number of other open pages of the context.  b.pages other pages of
\* the context are open; a context that was closed has none and makes no page.
ensurePageActive(b) ==
    IF b.browserContext = "nil"
    THEN {[err |-> "browser context is nil", page |-> b.page, pages |-> b.pages,
           calls |-> << >>]}
    ELSE IF b.page = "open"
    THEN {[err |-> "nil", page |-> "open", pages |-> b.pages,
           calls |-> << "IsClosed" >>]}
    ELSE LET seen == IF b.page = "nil" THEN << >> ELSE << "IsClosed" >>
         IN  IF b.pages > 0
             THEN {[err |-> "nil", page |-> "open", pages |-> b.pages - 1,
                    calls |-> seen \o << "Pages" >>]}
             ELSE {[err |-> "failed to create new page", page |-> b.page,
                    pages |-> b.pages, calls |-> seen \o << "Pages", "NewPage" >>]}
                  \cup IF b.browserContext = "open"
                       THEN {[err |-> "nil", page |-> "open", pages |-> b.pages,
                              calls |-> seen \o << "Pages", "NewPage" >>]}
                       ELSE {}

\* the readiness check of the variant without it: every call goes on to the page
prologueNoReadyCheck(b, op) ==
    {[e EXCEPT !.err = IF e.err = "nil" THEN ReturnNil
                       ELSE Wrap(op, CodeBrowserNotReady, e.err,
                                 [reason |-> "page_not_active"])] :
        e \in ensurePageActive(b)}

\* the lines every operation starts with: the ready flag, then the page
prologue(b, op) ==
    IF ~b.ready
    THEN {[err |-> WrapErrorWithReason(op, CodeBrowserNotReady, "browser_not_ready"),
           page |-> b.page, pages |-> b.pages, calls |-> << >>]}
    ELSE {[e EXCEPT !.err = IF e.err = "nil" THEN ReturnNil
                            ELSE Wrap(op, CodeBrowserNotReady, e.err,
                                      [reason |-> "page_not_active"])] :
             e \in ensurePageActive(b)}

\* Click's first strategy
wait_and_click ==
    { Outcome("visibility check failed", << "Evaluate" >>),
      Outcome("element check failed: element not found", << "Evaluate" >>),
      Outcome("element check failed: element not visible", << "Evaluate" >>),
      Outcome("click failed", << "Evaluate", "Click" >>),
      Outcome("nil", << "Evaluate", "Click" >>) }

force_click ==
    { Outcome("force click failed", << "Evaluate", "Click(force)" >>),
      Outcome("nil", << "Evaluate", "Click(force)" >>) }

js_direct_click ==
    { Outcome("js evaluation failed", << "Evaluate" >>),
      Outcome("js click failed: element not found", << "Evaluate" >>),
      Outcome("js click failed: exception", << "Evaluate" >>),
      Outcome("nil", << "Evaluate" >>) }

mouse_click ==
    { Outcome("coordinate calculation failed", << "Evaluate" >>),
      Outcome("invalid result format", << "Evaluate" >>),
      Outcome("element check failed: element not found", << "Evaluate" >>),
      Outcome("element check failed", << "Evaluate" >>),
      Outcome("invalid coordinates", << "Evaluate" >>),
      Outcome("mouse click failed", << "Evaluate", "Mouse.Click" >>),
      Outcome("nil", << "Evaluate", "Mouse.Click" >>) }

strategies ==
    << [name |-> "wait_and_click", fn |-> wait_and_click],
       [name |-> "force_click", fn |-> force_click],
       [name |-> "js_direct_click", fn |-> js_direct_click],
       [name |-> "mouse_click", fn |-> mouse_click] >>

\* the variant that never goes past the third strategy
strategyIndexStuck(attemptNum) == IF attemptNum >= 2 THEN 2 ELSE attemptNum

\* lines 560-563: the strategy of an attempt, counted from 0
strategyIndex(attemptNum) ==
    IF attemptNum >= Len(strategies) THEN Len(strategies) - 1 ELSE attemptNum

\* the variant with one attempt fewer
retryLoopShort(attemptNum) == attemptNum < maxRetries

\* the condition of the retry loops of Click and Fill
retryLoop(attemptNum) == attemptNum <= maxRetries

\* the variant that never bypasses the actionability checks
fillForceNever(attempt) == FALSE

\* line 677: Force of the fill of an attempt, counted from 0
fillForce(attempt) == attempt > 0

\* lines 648-688: what one pass of Fill's loop does
fillAttempt(attempt) ==
    LET clear == IF attempt > 0 THEN << "Fill(clear)" >> ELSE << >>
        fill  == IF fillForce(attempt) THEN << "Fill(force)" >> ELSE << "Fill" >>
    IN  { Outcome("wait for selector failed", << "WaitForSelector" >>),
          Outcome("fill failed", << "WaitForSelector" >> \o clear \o fill),
          Outcome("nil", << "WaitForSelector" >> \o clear \o fill) }

\* GetElements after its prologue
getElements(op) ==
    { Outcome(Wrap(op, CodeInternal, "evaluate error", [reason |-> "evaluate_failed"]),
              << "WaitForLoadState", "Evaluate" >>),
      Outcome(WrapErrorWithReason(op, CodeInternal, "unexpected_result_type"),
              << "WaitForLoadState", "Evaluate" >>),
      Outcome(ReturnNil, << "WaitForLoadState", "Evaluate" >>) }

\* the body of an operation that makes no retries, after its prologue
body(b, op, selector) ==
    CASE op = "Navigate" ->
           { Outcome(Wrap(op, CodeActionFailed, "goto error",
                          [reason |-> "goto_failed", stage |-> "navigation"]),
                     << "Goto" >>),
             Outcome(ReturnNil, << "Goto" >>) }
      [] op = "ClickAtCoordinates" ->
           { Outcome(Wrap(op, CodeActionFailed, "mouse error",
                          [reason |-> "click_coordinates_failed",
                           stage |-> "interaction"]),
                     << "Mouse.Click" >>),
             Outcome(ReturnNil, << "Mouse.Click" >>) }
      [] op = "Press" ->
           { Outcome(Wrap(op, CodeActionFailed, "keyboard error",
                          [reason |-> "press_failed", stage |-> "interaction"]),
                     << "Keyboard.Press" >>),
             Outcome(ReturnNil, << "Keyboard.Press" >>) }
      [] op = "Scroll" ->
           { Outcome(Wrap(op, CodeActionFailed, "evaluate error",
                          [reason |-> "scroll_failed", stage |-> "interaction"]),
                     << "Evaluate" >>),
             Outcome(ReturnNil, << "Evaluate" >>) }
      [] op = "WaitForSelector" ->
           { Outcome(Wrap(op, CodeTimeout, "wait error",
                          [reason |-> "wait_selector_timeout", selector |-> selector]),
                     << "WaitForSelector" >>),
             Outcome(ReturnNil, << "WaitForSelector" >>) }
      [] op = "GetElementText" ->
           { Outcome(Wrap(op, CodeNotFound, "query error",
                          [reason |-> "element_not_found", selector |-> selector]),
                     << "QuerySelector" >>),
             Outcome(Wrap(op, CodeNotFound, "element not found", [reason |-> "not_found"]),
                     << "QuerySelector" >>),
             Outcome(Wrap(op, CodeInternal, "text error",
                          [reason |-> "text_content_failed"]),
                     << "QuerySelector", "TextContent" >>),
             Outcome(ReturnNil, << "QuerySelector", "TextContent" >>) }
      [] op = "Screenshot" ->
           { Outcome(Wrap(op, CodeInternal, "screenshot error",
                          [reason |-> "screenshot_failed", stage |-> "screenshot"]),
                     << "Screenshot" >>),
             Outcome(ReturnNil, << "Screenshot" >>) }
      [] op = "GetPageState" ->
           \* the error of the inner GetElements is logged and dropped
           { Outcome(ReturnNil, << "URL", "Title", "IsClosed" >> \o o.calls) :
                o \in getElements("GetElements") }
      [] op = "GetElements" -> getElements(op)
      [] op = "EvaluateJS" ->
           { Outcome(Wrap(op, CodeInternal, "evaluate error",
                          [reason |-> "evaluate_failed"]),
                     << "Evaluate" >>),
             Outcome(ReturnNil, << "Evaluate" >>) }

\* an operation is called: its prologue and, unless it is Click or Fill, its body
Call(op, selector) ==
    /\ browser.phase # "running"
    /\ \E p \in prologue(browser, op) :
          LET b == [browser EXCEPT !.op = op, !.selector = selector,
                                   !.wasReady = browser.ready,
                                   !.wasClosed = browser.closed, !.page = p.page,
                                   !.pages = p.pages, !.checked = p.page,
                                   !.seen = [browserContext |-> browser.browserContext,
                                             page |-> browser.page,
                                             pages |-> browser.pages],
                                   !.attemptNum = 0, !.tried = << >>,
                                   !.lastErr = "nil"]
          IN  IF p.err # ReturnNil
              THEN browser' = [b EXCEPT !.phase = "returned", !.calls = p.calls,
                                        !.err = p.err]
              ELSE IF op \in { "Click", "Fill" }
              THEN browser' = [b EXCEPT !.phase = "running", !.calls = p.calls,
                                        !.err = NoReturn]
              ELSE \E o \in body(browser, op, selector) :
                      browser' = [b EXCEPT !.phase = "returned",
                                           !.calls = p.calls \o o.calls,
                                           !.err = o.err]
    /\ UNCHANGED << pc, running, stopChan, lastURL, lastAction, iteration,
                    consecutiveErrors, task, messages, pending, ret, stopPc, panicked,
                    ctxDone, pageURL, nExec, callGhosts, budgetGhosts, dispGhosts,
                    stopAt, gate, observation, tempFile,
                    console, synth, parsed >>

\* one pass of a retry loop that ended with the error e after the calls made
Retried(name, o, failure) ==
    LET attemptNum == browser.attemptNum
        b == [browser EXCEPT !.tried = Append(@, [name |-> name, err |-> o.err,
                                                   calls |-> o.calls]),
                             !.calls = @ \o o.calls]
    IN  IF o.err = "nil"
        THEN [b EXCEPT !.phase = "returned", !.err = ReturnNil]
        ELSE IF retryLoop(attemptNum + 1)
        THEN [b EXCEPT !.attemptNum = attemptNum + 1, !.lastErr = o.err]
        ELSE [b EXCEPT !.attemptNum = attemptNum + 1, !.lastErr = o.err,
                       !.phase = "returned",
                       !.err = Wrap(browser.op, CodeActionFailed, o.err,
                                    [reason |-> failure, stage |-> "interaction",
                                     selector |-> browser.selector])]

\* lines 554-585: one attempt of Click, and the return after the last
ClickAttempt ==
    /\ browser.phase = "running"
    /\ browser.op = "Click"
    /\ retryLoop(browser.attemptNum)
    /\ LET strategy == strategies[strategyIndex(browser.attemptNum) + 1]
       IN  \E o \in strategy.fn :
              browser' = Retried(strategy.name, o, "click_failed_all_strategies")
    /\ UNCHANGED << pc, running, stopChan, lastURL, lastAction, iteration,
                    consecutiveErrors, task, messages, pending, ret, stopPc, panicked,
                    ctxDone, pageURL, nExec, callGhosts, budgetGhosts, dispGhosts,
                    stopAt, gate, observation, tempFile,
                    console, synth, parsed >>

\* lines 647-695: one attempt of Fill, and the return after the last
FillAttempt ==
    /\ browser.phase = "running"
    /\ browser.op = "Fill"
    /\ retryLoop(browser.attemptNum)
    /\ \E o \in fillAttempt(browser.attemptNum) :
          browser' = Retried("fill", o, "fill_failed_after_retries")
    /\ UNCHANGED << pc, running, stopChan, lastURL, lastAction, iteration,
                    consecutiveErrors, task, messages, pending, ret, stopPc, panicked,
                    ctxDone, pageURL, nExec, callGhosts, budgetGhosts, dispGhosts,
                    stopAt, gate, observation, tempFile,
                    console, synth, parsed >>

\* Launch: it fails after the context is there, or it leaves the Manager
\* ready (a Launch that fails earlier changes none of these fields)
Launch ==
    /\ browser.phase # "running"
    /\ \/ browser' = [browser EXCEPT !.browserContext = "open", !.pages = 0]
       \/ browser' = [browser EXCEPT !.browserContext = "open", !.page = "open",
                                     !.pages = 0, !.ready = TRUE,
                                     !.closed = FALSE]
    /\ UNCHANGED << pc, running, stopChan, lastURL, lastAction, iteration,
                    consecutiveErrors, task, messages, pending, ret, stopPc, panicked,
                    ctxDone, pageURL, nExec, callGhosts, budgetGhosts, dispGhosts,
                    stopAt, gate, observation, tempFile,
                    console, synth, parsed >>

\* Close: a persistent browser stays open, another one is closed, and the
\* flag stays as it was when stopping playwright fails
Close ==
    /\ browser.phase # "running"
    /\ LET called == [browser EXCEPT !.closed = TRUE]
           closed == [called EXCEPT
                         !.browserContext = IF @ = "nil" THEN @ ELSE "closed",
                         !.page = IF @ = "nil" THEN @ ELSE "closed",
                         !.pages = 0]
       IN  \/ browser' = [called EXCEPT !.ready = FALSE]
           \/ browser' = closed
           \/ browser' = [closed EXCEPT !.ready = FALSE]
    /\ UNCHANGED << pc, running, stopChan, lastURL, lastAction, iteration,
                    consecutiveErrors, task, messages, pending, ret, stopPc, panicked,
                    ctxDone, pageURL, nExec, callGhosts, budgetGhosts, dispGhosts,
                    stopAt, gate, observation, tempFile,
                    console, synth, parsed >>

\* the user closes the tab the Manager holds
PageClosed ==
    /\ browser.page = "open"
    /\ browser.phase # "running"
    /\ browser' = [browser EXCEPT !.page = "closed"]
    /\ UNCHANGED << pc, running, stopChan, lastURL, lastAction, iteration,
                    consecutiveErrors, task, messages, pending, ret, stopPc, panicked,
                    ctxDone, pageURL, nExec, callGhosts, budgetGhosts, dispGhosts,
                    stopAt, gate, observation, tempFile,
                    console, synth, parsed >>

\* the site opens another tab in the context, or that tab is closed
TabOpened ==
    /\ browser.browserContext = "open"
    /\ browser.phase # "running"
    /\ browser' = [browser EXCEPT !.pages = 1 - @]
    /\ UNCHANGED << pc, running, stopChan, lastURL, lastAction, iteration,
                    consecutiveErrors, task, messages, pending, ret, stopPc, panicked,
                    ctxDone, pageURL, nExec, callGhosts, budgetGhosts, dispGhosts,
                    stopAt, gate, observation, tempFile,
                    console, synth, parsed >>

NextB ==
    \/ \E op \in Operations :
          \E selector \in (IF op \in SelectorOperations THEN BrowserSelectors
                           ELSE { << >> }) :
             Call(op, selector)
    \/ ClickAttempt
    \/ FillAttempt
    \/ Launch
    \/ Close
    \/ PageClosed
    \/ TabOpened

SpecB == Init /\ [][NextB]_vars

(***************************************************************************)
(* SpecO: optimizePageState as a function.  A page state is drawn at the   *)
(* start and compressed once.  The result is kept as its numbered entries  *)
(* and their fields, in the order they are written.                        *)
(***************************************************************************)
\* s[:n] of a Go string of more than n bytes: the characters that fit in the
\* first n bytes; a two-byte character that straddles the cut leaves its
\* first byte
BytePrefix(s, n) ==
    LET k == CHOOSE j \in 0..Len(s) :
                 /\ ByteLen(SubSeq(s, 1, j)) <= n
                 /\ j < Len(s) => ByteLen(SubSeq(s, 1, j + 1)) > n
        whole == SubSeq(s, 1, k)
    IN  IF ByteLen(whole) < n /\ k < Len(s) THEN whole \o << "\\xD0" >> ELSE whole

\* lines 389-392 and 394-397: a field longer than its cap is cut and marked
Shorten(s, cap) ==
    IF ByteLen(s) > cap THEN BytePrefix(s, cap) \o << ".", ".", "." >> ELSE s

optimizePageState(elements) ==
    LET clickableElems == SelectSeq(elements, LAMBDA e : e.Clickable)
        otherElems ==
            SelectSeq(elements,
                      LAMBDA e : ~e.Clickable /\ e.Text # << >> /\ ByteLen(e.Text) >= 3)
        count == IF Len(clickableElems) >= 40 THEN 40 ELSE Len(clickableElems)
        otherCount == IF Len(otherElems) >= 10 THEN 10 ELSE Len(otherElems)
    IN  [clickable |->
             [i \in 1..count |->
                 [n |-> i, text |-> Shorten(clickableElems[i].Text, 200),
                  selector |-> Shorten(clickableElems[i].Selector, 100)]],
         other |->
             [i \in 1..otherCount |->
                 [n |-> i, text |-> Shorten(otherElems[i].Text, 200)]]]

\* an entity.Element, as far as optimizePageState reads it
Element(clickable, text, selector) ==
    [Clickable |-> clickable, Text |-> text, Selector |-> selector]

\* texts and selectors around the caps: Latin ones of a given length, a
\* Cyrillic one of 101 characters, and one whose byte 200 is inside a character
ObservationTexts ==
    {[i \in 1..k |-> "a"] : k \in {0, 2, 3, 200, 201}}
    \cup {[i \in 1..101 |-> "cy_a"], << "a" >> \o [i \in 1..100 |-> "cy_a"]}

ObservationSelectors == {[i \in 1..k |-> "s"] : k \in {5, 100, 101}}

\* page states: no elements that are not clickable, then nc clickable ones;
\* long lists of short elements, and short lists of every kind of element
ObservationInputs ==
    {[i \in 1..(no + nc) |-> Element(i > no, text, selector)] :
        nc \in {0, 1, 40, 41}, no \in {0, 1, 10, 11},
        text \in {[i \in 1..k |-> "a"] : k \in {0, 2, 3}},
        selector \in {[i \in 1..k |-> "s"] : k \in {5}}}
    \cup {[i \in 1..(no + nc) |-> Element(i > no, text, selector)] :
             nc \in {0, 1}, no \in {0, 1},
             text \in ObservationTexts, selector \in ObservationSelectors}

InitO ==
    /\ InitService
    /\ gate = NoGate
    /\ browser = NewManager
    /\ observation \in {[elements |-> e, done |-> FALSE] : e \in ObservationInputs}
    /\ tempFile = "absent"
    /\ console = NewInterface
    /\ synth = NoElement
    /\ parsed = NoReply

\* s.optimizePageState(state)
Optimize ==
    /\ ~observation.done
    /\ observation' = [elements |-> observation.elements, done |-> TRUE,
                       out |-> optimizePageState(observation.elements)]
    /\ UNCHANGED << pc, running, stopChan, lastURL, lastAction, iteration,
                    consecutiveErrors, task, messages, pending, ret, stopPc, panicked,
                    ctxDone, pageURL, nExec, callGhosts, budgetGhosts, dispGhosts,
                    stopAt, gate, browser, tempFile,
                    console, synth, parsed >>

NextO == Optimize

SpecO == InitO /\ [][NextO]_vars

(***************************************************************************)
(* SpecC: the console Interface around the agent.  Start registers for the *)
(* interrupt signals and starts a goroutine that waits for one; the main   *)
(* loop reads commands and runs Execute on each; the OnStop hook of the    *)
(* application calls Interface.Stop from another goroutine.  The flag      *)
(* stopping is read and written by all three without synchronisation.      *)
(***************************************************************************)
\* Start, lines 178-191: signal.Notify and the goroutine
ConsoleStart ==
    /\ ~console.started
    /\ console' = [console EXCEPT !.started = TRUE, !.main = "check"]
    /\ UNCHANGED << pc, running, stopChan, lastURL, lastAction, iteration,
                    consecutiveErrors, task, messages, pending, ret, stopPc, panicked,
                    ctxDone, pageURL, nExec, callGhosts, budgetGhosts, dispGhosts,
                    stopAt, gate, browser, observation, tempFile, synth, parsed >>

\* Start, lines 195-198: the main loop looks at the flag before each command
MainCheck ==
    /\ console.started
    /\ ~console.exited
    /\ console.main = "check"
    /\ console' = [console EXCEPT !.main = IF console.stopping THEN "ended" ELSE "scan"]
    /\ UNCHANGED << pc, running, stopChan, lastURL, lastAction, iteration,
                    consecutiveErrors, task, messages, pending, ret, stopPc, panicked,
                    ctxDone, pageURL, nExec, callGhosts, budgetGhosts, dispGhosts,
                    stopAt, gate, browser, observation, tempFile, synth, parsed >>

\* Start, lines 200-212: a command that is a task has been read
MainScan ==
    /\ ~console.exited
    /\ console.main = "scan"
    /\ console.cmds < MaxExecutes
    /\ console' = [console EXCEPT !.main = "command", !.cmds = @ + 1]
    /\ UNCHANGED << pc, running, stopChan, lastURL, lastAction, iteration,
                    consecutiveErrors, task, messages, pending, ret, stopPc, panicked,
                    ctxDone, pageURL, nExec, callGhosts, budgetGhosts, dispGhosts,
                    stopAt, gate, browser, observation, tempFile, synth, parsed >>

\* executeTask, line 264: Execute(i.ctx, taskDescription) on the command read
ExecuteTask ==
    /\ ~console.exited
    /\ console.main = "command"
    /\ nExec < console.cmds
    /\ \E rdy \in BOOLEAN : ExecuteEntry("task", rdy)

\* executeTask has returned, and handleCommand with it
MainReturn ==
    /\ ~console.exited
    /\ console.main = "command"
    /\ nExec = console.cmds
    /\ pc = "done"
    /\ console' = [console EXCEPT !.main = "check"]
    /\ UNCHANGED << pc, running, stopChan, lastURL, lastAction, iteration,
                    consecutiveErrors, task, messages, pending, ret, stopPc, panicked,
                    ctxDone, pageURL, nExec, callGhosts, budgetGhosts, dispGhosts,
                    stopAt, gate, browser, observation, tempFile, synth, parsed >>

\* the steps of Execute, while the process lives
ModelCallC ==
    /\ pc = "call"
    /\ \E resp \in ResponsesD(LoopActions, MaxDispatchD) : SendMessage(resp)

AgentStep ==
    /\ ~console.exited
    /\ \/ ExecuteInit
       \/ LoopCond
       \/ Select
       \/ RunCheck
       \/ ModelCallC
       \/ Dispatch(LoopWorld)

\* line 187: the goroutine receives the signal
Signal ==
    /\ console.started
    /\ ~console.exited
    /\ console.handler = "waiting"
    /\ console' = [console EXCEPT !.handler = "received", !.sigAt = pc]
    /\ UNCHANGED << pc, running, stopChan, lastURL, lastAction, iteration,
                    consecutiveErrors, task, messages, pending, ret, stopPc, panicked,
                    ctxDone, pageURL, nExec, callGhosts, budgetGhosts, dispGhosts,
                    stopAt, gate, browser, observation, tempFile, synth, parsed >>

\* line 189: i.stopping = true
HandlerFlag ==
    /\ ~console.exited
    /\ console.handler = "received"
    /\ console' = [console EXCEPT !.handler = "flagged", !.stopping = TRUE]
    /\ UNCHANGED << pc, running, stopChan, lastURL, lastAction, iteration,
                    consecutiveErrors, task, messages, pending, ret, stopPc, panicked,
                    ctxDone, pageURL, nExec, callGhosts, budgetGhosts, dispGhosts,
                    stopAt, gate, browser, observation, tempFile, synth, parsed >>

\* Interface.Stop, lines 225-234, called by who: nothing if the flag is set,
\* else the flag and i.cancel()
StopEnter(who) ==
    IF console.stopping
    THEN /\ console' = [console EXCEPT ![who] = "returned"]
         /\ UNCHANGED ctxDone
    ELSE /\ console' = [console EXCEPT !.stopping = TRUE, ![who] = "cancelled"]
         /\ ctxDone' = TRUE

\* Interface.Stop, lines 237-241, called by who: Agent.Stop() and os.Exit(0)
StopLeave(who) ==
    /\ console[who] = "cancelled"
    /\ console' = [console EXCEPT ![who] = "exited", !.exited = TRUE]
    /\ running' = FALSE
    /\ IF stopChan = "closed"
       THEN panicked' = TRUE /\ UNCHANGED stopChan
       ELSE stopChan' = "closed" /\ UNCHANGED panicked
    /\ UNCHANGED << pc, lastURL, lastAction, iteration, consecutiveErrors, task,
                    messages, pending, ret, stopPc, ctxDone, pageURL, nExec,
                    callGhosts, budgetGhosts, dispGhosts, stopAt, gate, browser,
                    observation, tempFile, synth, parsed >>

\* line 190: the goroutine calls i.Stop().  The goroutine has set the flag on
\* the line before, so this call never gets past the test of line 226.
HandlerStop ==
    /\ ~console.exited
    /\ console.handler = "flagged"
    /\ StopEnter("handler")
    /\ UNCHANGED << pc, running, stopChan, lastURL, lastAction, iteration,
                    consecutiveErrors, task, messages, pending, ret, stopPc, panicked,
                    pageURL, nExec, callGhosts, budgetGhosts, dispGhosts,
                    stopAt, gate, browser, observation, tempFile, synth, parsed >>

\* the OnStop hook calls consoleInterface.Stop()
HookStop ==
    /\ console.started
    /\ ~console.exited
    /\ console.hook = "idle"
    /\ StopEnter("hook")
    /\ UNCHANGED << pc, running, stopChan, lastURL, lastAction, iteration,
                    consecutiveErrors, task, messages, pending, ret, stopPc, panicked,
                    pageURL, nExec, callGhosts, budgetGhosts, dispGhosts,
                    stopAt, gate, browser, observation, tempFile, synth, parsed >>

HookExit == ~console.exited /\ StopLeave("hook")

NextC ==
    \/ ConsoleStart
    \/ MainCheck
    \/ MainScan
    \/ ExecuteTask
    \/ MainReturn
    \/ AgentStep
    \/ Signal
    \/ HandlerFlag
    \/ HandlerStop
    \/ HookStop
    \/ HookExit

SpecC == Init /\ [][NextC]_vars

(***************************************************************************)
(* SpecS: generateSelector of the page script (getElementsScript).  An     *)
(* element is its tag name, its attributes and properties as strings       *)
(* (<< >> for an attribute that is absent or empty), and the chain of its   *)
(* ancestors, each with its tag name, its id and its index among the       *)
(* children of its parent node (-1 when it has none).                      *)
(***************************************************************************)
\* el.tagName.toLowerCase()
TagLower(tagName) ==
    CASE tagName = "INPUT" -> "input"
      [] tagName = "BUTTON" -> "button"
      [] tagName = "DIV" -> "div"
      [] tagName = "BODY" -> "body"
      [] tagName = "HTML" -> "html"

qaAttrs == << "data-test-id", "data-testid", "data-test", "data-qa", "data-cy" >>

Letters ==
    { "a","b","c","d","e","f","g","h","i","j","k","l","m","n","o","p","q","r","s",
      "t","u","v","w","x","y","z" } \cup { UpperLetters[i] : i \in DOMAIN UpperLetters }

DecimalDigits == { "0","1","2","3","4","5","6","7","8","9" }

HexDigits == DecimalDigits \cup { "a","b","c","d","e","f" }

\* the decimal numeral of a small child index
Numeral(n) == << "0","1","2","3","4","5","6","7","8","9" >>[n + 1]

\* s.split(' '): the pieces between the spaces, empty ones included
Split(s) ==
    LET spaces == { i \in 1..Len(s) : s[i] = " " }
        cut(k) == IF k = 0 THEN 0
                  ELSE IF k = Cardinality(spaces) + 1 THEN Len(s) + 1
                  ELSE CHOOSE i \in spaces : Cardinality({ j \in spaces : j < i }) = k - 1
    IN  [k \in 1..(Cardinality(spaces) + 1) |-> SubSeq(s, cut(k - 1) + 1, cut(k) - 1)]

\* the filter on class names: not empty, no leading digit, shorter than 40,
\* not eight or more hexadecimal digits
ClassKept(c) ==
    /\ c # << >>
    /\ c[1] \notin DecimalDigits
    /\ Len(c) < 40
    /\ ~(Len(c) >= 8 /\ \A i \in 1..Len(c) : c[i] \in HexDigits)

\* the kept class names, in order
KeptClasses(className) ==
    LET parts == Split(className)
        kept == { i \in 1..Len(parts) : ClassKept(parts[i]) }
        nth(k) == CHOOSE i \in kept : Cardinality({ j \in kept : j < i }) = k - 1
    IN  [k \in 1..Cardinality(kept) |-> parts[nth(k)]]

\* lines 17-24: the first test attribute that has a value
qaSelector(el) ==
    LET tag == TagLower(el.tagName)
        set == { i \in 1..Len(qaAttrs) : el.qa[i] # << >> }
    IN  IF set = {} THEN << >>
        ELSE LET i == CHOOSE k \in set : \A j \in set : k <= j
             IN  << << tag, "[", qaAttrs[i], "=\"" >> \o el.qa[i] \o << "\"]" >> >>

\* lines 26-28
idSelector(el) ==
    IF el.id # << >> /\ el.id[1] \in Letters /\ \A i \in 1..Len(el.id) : el.id[i] # " "
    THEN << << "#" >> \o el.id >>
    ELSE << >>

\* lines 30-32
nameSelector(el) ==
    LET tag == TagLower(el.tagName)
    IN  IF el.name # << >> /\ tag \in { "input", "select", "textarea", "button" }
        THEN << << tag, "[name=\"" >> \o el.name \o << "\"]" >> >>
        ELSE << >>

\* lines 34-37
ariaSelector(el) ==
    IF el.ariaLabel # << >> /\ Len(el.ariaLabel) < 80
    THEN << << "[aria-label=\"" >> \o el.ariaLabel \o << "\"]" >> >>
    ELSE << >>

\* lines 39-46
roleSelector(el) ==
    IF el.role # << >>
    THEN IF el.ariaLabel # << >>
         THEN << << "[role=\"" >> \o el.role \o << "\"][aria-label=\"" >>
                 \o el.ariaLabel \o << "\"]" >> >>
         ELSE << << "[role=\"" >> \o el.role \o << "\"]" >> >>
    ELSE << >>

\* lines 48-54
inputSelector(el) ==
    IF el.type # << >> /\ TagLower(el.tagName) = "input"
    THEN IF el.placeholder # << >>
         THEN << << "input[type=\"" >> \o el.type \o << "\"][placeholder=\"" >>
                 \o el.placeholder \o << "\"]" >> >>
         ELSE << << "input[type=\"" >> \o el.type \o << "\"]" >> >>
    ELSE << >>

\* lines 56-63: the first two class names that pass the filter
classSelector(el) ==
    LET kept == KeptClasses(el.className)
        classes == SubSeq(kept, 1, IF Len(kept) < 2 THEN Len(kept) ELSE 2)
    IN  IF el.className # << >> /\ Len(classes) > 0
        THEN << << "." >> \o classes[1]
                \o (IF Len(classes) = 2 THEN << "." >> \o classes[2] ELSE << >>) >>
        ELSE << >>

\* lines 65-68
titleSelector(el) ==
    IF el.title # << >> /\ Len(el.title) < 50
    THEN << << "[title=\"" >> \o el.title \o << "\"]" >> >>
    ELSE << >>

\* lines 71-85: the path over at most three nodes, the element first; chain[1]
\* is the element.  The walk stops at the first node that has an id.
pathParts(el) ==
    LET chain == el.chain
        n == IF Len(chain) < 3 THEN Len(chain) ELSE 3
        withId == { d \in 1..n : chain[d].id # << >> }
        stop == IF withId = {} THEN n + 1 ELSE CHOOSE d \in withId : \A e \in withId : d <= e
        part(d) ==
            IF d = stop THEN << << "#" >> \o chain[d].id >>
            ELSE IF chain[d].index >= 0
            THEN << << TagLower(chain[d].tagName), ":nth-child(",
                       Numeral(chain[d].index + 1), ")" >> >>
            ELSE << >>
        upTo == IF stop <= n THEN stop ELSE n
    IN  \* unshift puts each later node before the earlier ones
        IF upTo = 0 THEN << >>
        ELSE IF upTo = 1 THEN part(1)
        ELSE IF upTo = 2 THEN part(2) \o part(1)
        ELSE part(3) \o part(2) \o part(1)

\* path.join(' > ')
JoinPath(parts) ==
    IF Len(parts) = 1 THEN parts[1]
    ELSE IF Len(parts) = 2 THEN parts[1] \o << " > " >> \o parts[2]
    ELSE parts[1] \o << " > " >> \o parts[2] \o << " > " >> \o parts[3]

\* lines 70-92: the path, or the tag name alone
pathSelector(el) ==
    LET path == pathParts(el)
    IN  IF Len(path) > 0 THEN << JoinPath(path) >> ELSE << << TagLower(el.tagName) >> >>

\* the array selectors before line 70
ruleSelectors(el) ==
    qaSelector(el) \o idSelector(el) \o nameSelector(el) \o ariaSelector(el)
    \o roleSelector(el) \o inputSelector(el) \o classSelector(el) \o titleSelector(el)

\* variant: the selector pushed last is returned
generateSelectorLast(el) ==
    LET selectors == ruleSelectors(el)
        all == IF Len(selectors) = 0 THEN pathSelector(el) ELSE selectors
    IN  all[Len(all)]

\* generateSelector, lines 13-95
generateSelector(el) ==
    LET selectors == ruleSelectors(el)
        all == IF Len(selectors) = 0 THEN pathSelector(el) ELSE selectors
    IN  all[1]

\* a string of n letters x
Xs(n) == [i \in 1..n |-> "x"]

\* the elements the script is given
SynthTags == { "INPUT", "BUTTON", "DIV" }

SynthQa ==
    { << << >>, << >>, << >>, << >>, << >> >>,
      << << >>, << "b","u","y" >>, << >>, << >>, << >> >>,
      << << >>, << >>, << "t","1" >>, << >>, << "c","y" >> >> }

SynthIds == { << >>, << "m","a","i","n" >>, << "1","a" >>, << "a"," ","b" >> }

SynthNames == { << >>, << "q" >> }

SynthLabels == { << >>, << "G","o" >>, Xs(80) }

SynthRoles == { << >>, << "t","a","b" >> }

SynthPlaceholders == { << >>, << "F","i","n","d" >> }

SynthClasses ==
    { << >>,
      << "b","t","n"," "," ","1","x"," ","o","k"," ","z" >>,
      << "9","a"," ","d","e","a","d","b","e","e","f","0","1" >>,
      Xs(40) \o << " ","u" >> }

SynthTitles == { << >>, << "T","i","p" >>, Xs(50) }

\* the ancestors above the element: none (a detached element), a parent with
\* an id, or three plain ancestors
SynthAncestors ==
    { [index |-> -1, above |-> << >>],
      [index |-> 2, above |-> << [tagName |-> "DIV", id |-> << "r" >>, index |-> 0] >>],
      [index |-> 0,
       above |-> << [tagName |-> "DIV", id |-> << >>, index |-> 1],
                    [tagName |-> "BODY", id |-> << >>, index |-> 1],
                    [tagName |-> "HTML", id |-> << >>, index |-> 0] >>] }

\* el.type is "text" on every input without a type attribute and not defined
\* on a div
DomElement(tagName, qa, id, name, ariaLabel, role, placeholder, className, title, anc) ==
    [tagName |-> tagName, qa |-> qa, id |-> id, name |-> name, ariaLabel |-> ariaLabel,
     role |-> role,
     type |-> IF tagName = "INPUT" THEN << "t","e","x","t" >>
              ELSE IF tagName = "BUTTON" THEN << "s","u","b","m","i","t" >> ELSE << >>,
     placeholder |-> placeholder, className |-> className, title |-> title,
     chain |-> << [tagName |-> tagName, id |-> id, index |-> anc.index] >> \o anc.above]

SynthInputs ==
    { DomElement(t, qa, id, nm, al, ro, ph, cl, ti, an) :
        t \in SynthTags, qa \in SynthQa, id \in SynthIds, nm \in SynthNames,
        al \in SynthLabels, ro \in SynthRoles, ph \in SynthPlaceholders,
        cl \in SynthClasses, ti \in SynthTitles, an \in SynthAncestors }

InitS ==
    /\ InitService
    /\ gate = NoGate
    /\ browser = NewManager
    /\ observation = NoObservation
    /\ tempFile = "absent"
    /\ console = NewInterface
    /\ synth \in { [el |-> e, done |-> FALSE] : e \in SynthInputs }
    /\ parsed = NoReply

\* generateSelector(el)
Synthesize ==
    /\ ~synth.done
    /\ synth' = [el |-> synth.el, done |-> TRUE, selector |-> generateSelector(synth.el)]
    /\ UNCHANGED << pc, running, stopChan, lastURL, lastAction, iteration,
                    consecutiveErrors, task, messages, pending, ret, stopPc, panicked,
                    ctxDone, pageURL, nExec, callGhosts, budgetGhosts, dispGhosts,
                    stopAt, gate, browser, observation, tempFile, console, parsed >>

NextS == Synthesize

SpecS == InitS /\ [][NextS]_vars

(***************************************************************************)
(* SpecP: the ai Client's parseResponse, applied to a response of the      *)
(* messages API, and what Execute does with the outcome.                    *)
(***************************************************************************)
\* a JSON string and a JSON number of a tool call's input
Str(v) == [kind |-> "string", v |-> v]

Num(n) == [kind |-> "number", v |-> n]

\* input[key].(string) and input[key].(float64): the value, or the zero value
\* given when the key is missing or holds another kind
StringOf(input, key, zero) ==
    IF key \in DOMAIN input /\ input[key].kind = "string" THEN input[key].v ELSE zero

NumberOf(input, key, zero) ==
    IF key \in DOMAIN input /\ input[key].kind = "number" THEN input[key].v ELSE zero

\* the content blocks of a response
Text(text) == [Type |-> "text", Text |-> text]

ToolUse(name, input) == [Type |-> "tool_use", Name |-> name, Input |-> input]

KnownTools ==
    { "navigate", "click", "click_at_coordinates", "fill", "press", "scroll", "wait",
      "complete_task" }

\* parseToolUse: the action of a tool call, nil for complete_task, an error
\* for a name that is no tool
parseToolUse(toolName, input) ==
    CASE toolName = "navigate" ->
           [err |-> FALSE,
            action |-> BrowserAction(ActionTypeNavigate, << >>, << >>,
                                     StringOf(input, "url", << >>), 0, 0, 0)]
      [] toolName = "click" ->
           [err |-> FALSE,
            action |-> BrowserAction(ActionTypeClick, StringOf(input, "selector", << >>),
                                     << >>, << >>, 0, 0, 0)]
      [] toolName = "click_at_coordinates" ->
           [err |-> FALSE,
            action |-> BrowserAction(ActionTypeClickCoordinates, << >>, << >>, << >>, 0,
                                     NumberOf(input, "x", 0), NumberOf(input, "y", 0))]
      [] toolName = "fill" ->
           [err |-> FALSE,
            action |-> BrowserAction(ActionTypeFill, StringOf(input, "selector", << >>),
                                     StringOf(input, "value", << >>), << >>, 0, 0, 0)]
      [] toolName = "press" ->
           [err |-> FALSE,
            action |-> BrowserAction(ActionTypePress, << >>,
                                     StringOf(input, "key", << >>), << >>, 0, 0, 0)]
      [] toolName = "scroll" ->
           [err |-> FALSE,
            action |-> BrowserAction(ActionTypeScroll, << >>,
                                     StringOf(input, "direction", << >>), << >>,
                                     NumberOf(input, "amount", 500), 0, 0)]
      [] toolName = "wait" ->
           [err |-> FALSE,
            action |-> BrowserAction(ActionTypeWait, << >>, << >>, << >>,
                                     NumberOf(input, "seconds", 0) * 1000, 0, 0)]
      [] toolName = "complete_task" -> [err |-> FALSE, action |-> NoAction]
      [] OTHER -> [err |-> TRUE, action |-> NoAction]

\* the loop of parseResponse over the content blocks that are left
RECURSIVE parseContent(_, _)
parseContent(content, aiResp) ==
    IF content = << >> THEN aiResp
    ELSE LET c == Head(content)
         IN  IF c.Type = "text"
             THEN parseContent(Tail(content), [aiResp EXCEPT !.Thought = c.Text])
             ELSE IF c.Type = "tool_use"
             THEN LET p == parseToolUse(c.Name, c.Input)
                  IN  IF p.err THEN AIFailure
                      ELSE IF c.Name = "complete_task"
                      THEN parseContent(Tail(content),
                               [aiResp EXCEPT !.Action = p.action, !.Complete = TRUE,
                                              !.Result = StringOf(c.Input, "result", @)])
                      ELSE parseContent(Tail(content), [aiResp EXCEPT !.Action = p.action])
             ELSE parseContent(Tail(content), aiResp)

\* variant: the stop reason is not looked at
parseResponseToolOnly(resp) ==
    parseContent(resp.Content, AIResponse("", FALSE, NoAction, ""))

\* parseResponse
parseResponse(resp) ==
    parseContent(resp.Content, AIResponse("", resp.StopReason = "end_turn", NoAction, ""))

\* What Execute does with the outcome of SendMessage in an iteration: a
\* failure is counted and the loop goes on, a complete response ends the task
\* with its Result before any action is looked at, and otherwise the action,
\* if there is one, goes to handleAction.
afterSendMessage(response) ==
    IF ~response.ok
    THEN [Status |-> TaskStatusInProgress, Result |-> "", dispatched |-> NoAction]
    ELSE IF response.Complete
    THEN [Status |-> TaskStatusCompleted, Result |-> response.Result,
          dispatched |-> NoAction]
    ELSE [Status |-> TaskStatusInProgress, Result |-> "", dispatched |-> response.Action]

\* the longest content of a response
MaxContent == 2

StopReasons == { "end_turn", "tool_use", "max_tokens" }

ContentBlocks ==
    { Text("thought"),
      ToolUse("click", [selector |-> Str(S_ok)]),
      ToolUse("wait", [seconds |-> Num(2)]),
      ToolUse("complete_task", [result |-> Str("result")]),
      ToolUse("complete_task", [result |-> Num(7)]),
      ToolUse("hover", [selector |-> Str(S_ok)]) }

RECURSIVE Contents(_)
Contents(n) ==
    IF n = 0 THEN { << >> }
    ELSE Contents(n - 1)
         \cup { Append(c, b) : c \in { x \in Contents(n - 1) : Len(x) = n - 1 },
                               b \in ContentBlocks }

ClaudeResponses ==
    { [StopReason |-> s, Content |-> c] : s \in StopReasons, c \in Contents(MaxContent) }

InitP ==
    /\ InitService
    /\ gate = NoGate
    /\ browser = NewManager
    /\ observation = NoObservation
    /\ tempFile = "absent"
    /\ console = NewInterface
    /\ synth = NoElement
    /\ parsed \in { [resp |-> r, done |-> FALSE] : r \in ClaudeResponses }

\* SendMessage parses the response and Execute goes on with the outcome
Parse ==
    /\ ~parsed.done
    /\ parsed' = [resp |-> parsed.resp, done |-> TRUE,
                  out |-> parseResponse(parsed.resp),
                  exec |-> afterSendMessage(parseResponse(parsed.resp))]
    /\ UNCHANGED << pc, running, stopChan, lastURL, lastAction, iteration,
                    consecutiveErrors, task, messages, pending, ret, stopPc, panicked,
                    ctxDone, pageURL, nExec, callGhosts, budgetGhosts, dispGhosts,
                    stopAt, gate, browser, observation, tempFile, console, synth >>

NextP == Parse

SpecP == InitP /\ [][NextP]_vars

(***************************************************************************)
(* Properties of the dispatcher (SpecD).                                   *)
(***************************************************************************)
\* two actions of the same type whose discriminating fields agree
SameAction(a, b) ==
    /\ a # NoAction
    /\ b # NoAction
    /\ a.Type = b.Type
    /\ CASE a.Type = ActionTypeNavigate -> a.URL = b.URL
         [] a.Type = ActionTypeClick -> a.Selector = b.Selector
         [] a.Type = ActionTypeFill -> a.Selector = b.Selector /\ a.Value = b.Value
         [] a.Type = ActionTypeScroll -> a.Value = b.Value /\ a.WaitFor = b.WaitFor
         [] a.Type = ActionTypeClickCoordinates -> a.X = b.X /\ a.Y = b.Y
         [] a.Type = ActionTypePress -> a.Value = b.Value
         [] a.Type = ActionTypeWait -> a.WaitFor = b.WaitFor
         [] OTHER -> FALSE

\* C1: when two consecutive dispatches carry the same action (same type, same
\* discriminating fields), whatever its type, the second one returns
\* DuplicateAction and executeAction is not called for it.
C1_SecondIdenticalIsDuplicate ==
    (disp # NoDispatch /\ SameAction(prevAct, disp.action))
        => (disp.err = CodeDuplicateAction /\ ~disp.executed)

\* C1: a state the property is about: the same Fill dispatched twice in a row,
\* the second short-circuited.
C1_RepeatedFillShortCircuits ==
    /\ disp # NoDispatch
    /\ prevAct = Fill(S_q, V_shoes)
    /\ disp.action = Fill(S_q, V_shoes)
    /\ disp.err = CodeDuplicateAction
    /\ ~disp.executed

\* the lines that requestUserConfirmation takes for consent
AffirmativeInputs == { << "y" >>, << " ","Y","e","s","\n" >>, << "\t","Y"," " >> }

\* the dispatches of DispatchActions the safety gate classifies as sensitive
GateSensitive(d) ==
    \/ d.action = Fill(S_pin, V_shoes)
    \/ d.action = Click(S_pay) /\ d.captured /\ d.urlBefore = U_cart

\* what one handleAction call must have done, seen from the state before it
\* and the state after it
ConfirmedBeforeActing ==
    /\ (GateSensitive(disp') /\ disp'.err # CodeDuplicateAction) => disp'.asked
    /\ (GateSensitive(disp') /\ disp'.executed) => disp'.input \in AffirmativeInputs
    /\ (disp'.asked /\ disp'.input \notin AffirmativeInputs) =>
          /\ disp'.err = CodeCancelledByUser
          /\ ~disp'.executed
          /\ disp'.calls = << "GetPageState" >>
          /\ task'.Steps =
                Append(task.Steps, [Action |-> disp'.action.Type, Success |-> FALSE,
                                    Error |-> "action cancelled by user"])
          /\ Len(messages') = Len(messages) + 1
          /\ messages'[Len(messages')].Role = "user"

\* C6: a dispatch of a sensitive action asks the operator before any actuator
\* call, and acts only on "yes"/"y"; on any other answer, an empty line and end
\* of input included, it returns CancelledByUser, records exactly one failed
\* step "action cancelled by user", adds one user message and calls no actuator.
C6_ConfirmationBeforeActuator ==
    [][(pc = "dispatch" /\ pc' # "dispatch") => ConfirmedBeforeActing]_vars

\* C6: a state the property is about: the operator's input ended at the prompt
\* for a payment click on the cart page, and the click was cancelled.
C6_DeclinedAtEndOfInput ==
    /\ disp # NoDispatch
    /\ disp.action = Click(S_pay)
    /\ disp.asked
    /\ disp.input = EOF
    /\ disp.err = CodeCancelledByUser
    /\ ~disp.executed

\* C8: a Click that is not a duplicate asks for confirmation exactly when its
\* selector has a destructive or payment word and the page is, at dispatch time,
\* at a payment, checkout or cart URL - also when the capture before it failed.
C8_ClickConfirmedOnCheckoutPage ==
    (disp # NoDispatch /\ disp.action.Type = ActionTypeClick
                       /\ disp.err # CodeDuplicateAction)
        => (disp.asked <=> (disp.action.Selector = S_pay /\ disp.urlBefore = U_cart))

\* C8: a state where the gate did its work: capture succeeded on the cart page
\* and the payment click was put to the operator.
C8_PayClickAsked ==
    /\ disp # NoDispatch
    /\ disp.action = Click(S_pay)
    /\ disp.captured
    /\ disp.urlBefore = U_cart
    /\ disp.asked

(***************************************************************************)
(* Properties of the loop (Spec).                                          *)
(***************************************************************************)
\* the last n steps of the task all failed
LastStepsFailed(n) ==
    /\ task # NoTask
    /\ Len(task.Steps) >= n
    /\ \A i \in (Len(task.Steps) - n + 1)..Len(task.Steps) : ~task.Steps[i].Success

\* C2: once the last three dispatches all failed, Execute has ended the task:
\* Failed, code ActionFailed, error "too many consecutive action errors".
C2_ThreeFailedDispatchesEndTask ==
    LastStepsFailed(3)
        => /\ pc = "done"
           /\ task.Status = TaskStatusFailed
           /\ task.Error = "too many consecutive action errors"
           /\ ret.err = CodeActionFailed

\* C3: a task that Execute returns is Completed with a nil error or Failed
\* with a non-nil error, never still in progress.
C3_ReturnedTaskIsTerminal ==
    (pc = "done" /\ ret.task = "task")
        => \/ task.Status = TaskStatusCompleted /\ ret.err = NoError
           \/ task.Status = TaskStatusFailed /\ ret.err # NoError

\* where Execute is while its loop runs
LoopPcs == {"loop", "select", "runcheck", "call", "dispatch"}

\* C4: when Stop() was called while the loop was running (and the context was
\* not cancelled, the task not completed and no error budget exhausted), Execute
\* returns the task Failed with "stopped by user" and CancelledByUser.
C4_StopEndsTaskAsStopped ==
    (/\ pc = "done"
     /\ ret.task = "task"
     /\ stopAt \in LoopPcs
     /\ ~ctxDone
     /\ task.Status # TaskStatusCompleted
     /\ ret.err \notin {CodeAIError, CodeActionFailed, CodeMaxIterations})
        => /\ task.Status = TaskStatusFailed
           /\ task.Error = "stopped by user"
           /\ ret.err = CodeCancelledByUser

\* C5: a second Stop() on a service whose loop is already stopped, no Execute
\* having started, completes without a fault.
C5_SecondStopIsNoOp == ~(panicked /\ pc = "idle")

\* every step of the task succeeded
AllStepsSucceeded == \A i \in 1..Len(task.Steps) : task.Steps[i].Success

\* Execute returned a task that was not completed, after model calls that all
\* succeeded and dispatches that all succeeded, with no Stop and no cancellation
UndisturbedReturn ==
    /\ pc = "done"
    /\ ret.task = "task"
    /\ ret.err # CodeBrowserNotReady
    /\ task.Status # TaskStatusCompleted
    /\ ~aiFailed
    /\ AllStepsSucceeded
    /\ running
    /\ stopChan = "open"
    /\ ~ctxDone

\* C9: with no completion, no failed model call, no failed dispatch, no Stop
\* and no cancellation, Execute returns after exactly maxIterations model calls,
\* the task Failed with "max iterations reached" and code MaxIterations.
C9_BudgetExhausted ==
    UndisturbedReturn
        => /\ modelCalls = maxIterations
           /\ task.Status = TaskStatusFailed
           /\ task.Error = "max iterations reached"
           /\ ret.err = CodeMaxIterations

\* C9: a state the property is about: the budget ran out on a task whose
\* dispatches all succeeded.
C9_SixteenCallsThenFailed ==
    /\ UndisturbedReturn
    /\ Len(task.Steps) >= 1
    /\ modelCalls = maxIterations
    /\ ret.err = CodeMaxIterations

\* C10: three model-call failures in a row end the task as Failed with
\* AIError; a successful model call leaves the counter at 0, so that after
\* failure, failure, success, failure the task has not ended with AIError; and a
\* task that ended with AIError did so on a run of three failures, or of two
\* that followed a failed dispatch.
C10_ThreeAIFailuresInARow ==
    /\ aiFailRun >= 3
          => /\ pc = "done"
             /\ task.Status = TaskStatusFailed
             /\ task.Error = "too many AI errors"
             /\ ret.err = CodeAIError
    /\ pc = "dispatch" => consecutiveErrors = 0
    /\ (modelCalls = 4 /\ maxFailRun = 2 /\ aiFailRun = 1)
          => ~(pc = "done" /\ ret.err = CodeAIError)
    /\ (pc = "done" /\ ret.err = CodeAIError)
          => \/ aiFailRun = 3
             \/ aiFailRun = 2 /\ LastStepsFailed(1)

\* C10: a state the property is about: failure, failure, success, failure, and
\* the loop goes on.
C10_FailFailSuccessFail ==
    /\ pc = "loop"
    /\ task.Status = TaskStatusInProgress
    /\ modelCalls = 4
    /\ aiFailRun = 1
    /\ maxFailRun = 2

(***************************************************************************)
(* Properties of the loop (Spec), continued.                               *)
(***************************************************************************)
\* C11: a failed model call does not count against the iteration budget: when
\* the budget ran out on an Execute in which some model call failed, more than
\* maxIterations calls were made (maxIterations of them successful).
C11_FailedCallsKeepTheBudget ==
    (pc = "done" /\ ret.err = CodeMaxIterations /\ aiFailed)
        => modelCalls > maxIterations

\* what SendMessage must have done with a response that signals completion,
\* seen from the state before the call and the state after it
CompletedOnSignal ==
    /\ pc' = "done"
    /\ ret' = [task |-> "task", err |-> NoError]
    /\ task'.Status = TaskStatusCompleted
    /\ task'.Result = lastResp'.Result
    /\ task'.CompletedAt
    /\ task'.Steps = task.Steps
    /\ pending' = NoAction
    /\ nDispatch' = nDispatch

\* C12: on a response that signals completion Execute returns the task
\* Completed, with the supplied Result and a completion timestamp, and a nil
\* error, and dispatches nothing, also when the response carries an action.
C12_CompletionEndsTheTask ==
    [][(pc = "call" /\ pc' # "call" /\ lastResp'.ok /\ lastResp'.Complete)
          => CompletedOnSignal]_vars

\* C12: a state the property is about: completion signalled together with an
\* action, after an earlier step; the action was not dispatched.
C12_CompletedWithUndispatchedAction ==
    /\ pc = "done"
    /\ lastResp.ok
    /\ lastResp.Complete
    /\ lastResp.Action = Press(K_Tab)
    /\ lastResp.Result = "result"
    /\ task.Status = TaskStatusCompleted
    /\ Len(task.Steps) = 1

\* C20: an empty task description is rejected with InvalidArgument and no
\* task; a browser that is not ready gives the task back Failed with
\* BrowserNotReady; in both cases no model call and no dispatch is made.
C20_RejectedOnEntry ==
    /\ entry.taskDescription = ""
          => /\ pc = "done"
             /\ ret = [task |-> "nil", err |-> CodeInvalidArgument]
             /\ task = NoTask
             /\ modelCalls = 0
             /\ lastResp = NoResponse
             /\ pending = NoAction
    /\ (entry.taskDescription = "task" /\ ~entry.isReady)
          => /\ pc = "done"
             /\ ret = [task |-> "task", err |-> CodeBrowserNotReady]
             /\ task.Status = TaskStatusFailed
             /\ task.Error = "browser is not ready"
             /\ task.Steps = << >>
             /\ modelCalls = 0
             /\ lastResp = NoResponse
             /\ pending = NoAction

\* C20: a state the property is about: a second Execute, after one that
\* dispatched an action, found the browser not ready.
C20_NotReadyAfterAnEarlierTask ==
    /\ pc = "done"
    /\ entry = [taskDescription |-> "task", isReady |-> FALSE]
    /\ ret.err = CodeBrowserNotReady
    /\ nExec = 2
    /\ nDispatch >= 1

(***************************************************************************)
(* Properties of the dispatcher (SpecD), continued.                        *)
(***************************************************************************)
\* what one step of the system may do to the steps of the task
StepsGrowByDispatchOnly ==
    IF pc = "dispatch" /\ pc' # "dispatch"
    THEN /\ Len(task'.Steps) = Len(task.Steps) + 1
         /\ SubSeq(task'.Steps, 1, Len(task.Steps)) = task.Steps
         /\ task'.Steps[Len(task'.Steps)].Action = disp'.action.Type
         /\ task'.Steps[Len(task'.Steps)].Success = (disp'.err = NoError)
    ELSE IF nExec' # nExec
    THEN task' # NoTask => task'.Steps = << >>
    ELSE task # NoTask => task'.Steps = task.Steps

\* C13: the steps of a task are as many as the dispatch attempts made for it:
\* a task starts without steps, every handleAction call appends exactly one,
\* whatever its outcome, and nothing else adds, changes or removes a step.
C13_OneStepPerDispatch == [][StepsGrowByDispatchOnly]_vars

\* C13: a state the property is about: two dispatches, the second rejected as
\* a duplicate, and two steps.
C13_TwoDispatchesTwoSteps ==
    /\ disp # NoDispatch
    /\ disp.err = CodeDuplicateAction
    /\ disp.nSteps = 1
    /\ task # NoTask
    /\ Len(task.Steps) = 2
    /\ task.Steps[1].Success
    /\ task.Steps[2].Error = "duplicate action detected"

\* C14: after every dispatch attempt, whatever its outcome, the remembered
\* last action is the action that was dispatched.
C14_LastActionIsTheOneDispatched ==
    disp # NoDispatch => lastAction = disp.action

\* C15: a dispatch is rejected as a duplicate only if the dispatch attempt
\* just before it, in the same task, carried the same action.
C15_DuplicateOnlyOfPrecedingAttempt ==
    (disp # NoDispatch /\ disp.err = CodeDuplicateAction)
        => (disp.nSteps >= 1 /\ SameAction(prevAct, disp.action))

(***************************************************************************)
(* Properties of the safety gate as a function (SpecGate).                 *)
(***************************************************************************)
\* selectors of GateSelectors with password, card, cvv or pin in them
SensitiveSelectors == { S_Password, S_CARD, S_cvv, S_pin, S_shipping }

\* selectors of GateSelectors with code in them
CodeSelectors == { S_Code }

\* values of GateValues of at most six bytes
ShortValues == { V_shoes, V_empty, V_123456, V_REMOVE }

\* values of GateValues with delete, remove or the Russian word in them
DeletionValues == { V_DeleteAll, V_REMOVE, V_Udalit }

\* values of GateValues with password or card in them
SensitiveValues == { V_password, V_card }

\* C7: a Fill requires confirmation exactly when its selector contains
\* password, card, cvv or pin (in any case), or contains code while the value is
\* at most six bytes long, or its value contains delete, remove or the Russian
\* word; a sensitive word in the value alone does not require it.
C7_FillGateBySelectorAndDeletion ==
    (gate.checked /\ gate.action.Type = ActionTypeFill)
        => (gate.confirm <=>
               \/ gate.action.Selector \in SensitiveSelectors
               \/ gate.action.Selector \in CodeSelectors
                     /\ gate.action.Value \in ShortValues
               \/ gate.action.Value \in DeletionValues)

\* C7 as stated: a Fill requires confirmation whenever its selector or its
\* value matches a sensitive-data pattern, or it is a short code field, or its
\* value contains deletion language.
C7_FillGateBySelectorOrValue ==
    (/\ gate.checked
     /\ gate.action.Type = ActionTypeFill
     /\ \/ gate.action.Selector \in SensitiveSelectors
        \/ gate.action.Value \in SensitiveValues
        \/ gate.action.Selector \in CodeSelectors /\ gate.action.Value \in ShortValues
        \/ gate.action.Value \in DeletionValues)
        => gate.confirm

\* C7: a state the property is about: "password" typed into a field with a
\* harmless selector passes the gate without confirmation.
C7_PasswordValueNotConfirmed ==
    /\ gate.checked
    /\ gate.action = Fill(S_q, V_password)
    /\ ~gate.confirm

(***************************************************************************)
(* Properties of the action executors (SpecD).                             *)
(***************************************************************************)
\* the latest dispatch called takeScreenshot
ScreenshotAttempted == \E i \in 1..Len(disp.calls) : disp.calls[i] = "Screenshot"

\* a Fill that actionFill follows with Enter
SearchFill(a) ==
    /\ a.Type = ActionTypeFill
    /\ \/ Contains(ToLower(a.Selector), W_search)
       \/ Contains(ToLower(a.Selector), W_query)
       \/ Contains(ToLower(a.Value), W_poisk)

C22_ScreenshotIffURLChanged ==
    (/\ disp # NoDispatch
     /\ disp.err = NoError
     /\ pc = "loop"
     /\ Len(messages) = disp.nMsgs + 1
     /\ messages[Len(messages)].Kind = "page_state"
     /\ \/ disp.action.Type = ActionTypeClick
        \/ disp.action.Type = ActionTypePress /\ disp.action.Value = W_Enter
        \/ SearchFill(disp.action))
        => (ScreenshotAttempted <=> pageURL # disp.urlBefore)

\* C24: no file is left at takeScreenshot's temporary path, whichever way
\* takeScreenshot ended: captured and read, capture failed, read failed.
C24_NoTempFileLeft == tempFile = "absent"

(***************************************************************************)
(* Properties of the browser Manager (SpecB).                              *)
(***************************************************************************)
\* the metadata of an error names the selector
HasSelector(e, selector) ==
    /\ "selector" \in DOMAIN e.Metadata
    /\ e.Metadata.selector = selector

\* the attempts of the running or latest operation that failed
AllFailed == \A k \in 1..Len(browser.tried) : browser.tried[k].err # "nil"

\* a successful attempt is the last one, and the operation returned nil on it
StopsAtFirstSuccess ==
    /\ \A k \in 1..Len(browser.tried) :
          browser.tried[k].err = "nil"
              => /\ k = Len(browser.tried)
                 /\ browser.phase = "returned"
                 /\ browser.err = ReturnNil
    /\ browser.err = ReturnNil
          => /\ browser.tried # << >>
             /\ browser.tried[Len(browser.tried)].err = "nil"

\* the retries ended without a success: the error Click or Fill returns
Exhausted(failure) ==
    /\ Len(browser.tried) = maxRetries + 1
    /\ browser.phase = "returned"
    /\ browser.err.Code = CodeActionFailed
    /\ browser.err.Err = browser.tried[maxRetries + 1].err
    /\ browser.err.Metadata.reason = failure
    /\ HasSelector(browser.err, browser.selector)

\* C16: Click tries wait_and_click, force_click, js_direct_click and
\* mouse_click in this order, the k-th attempt with the k-th of them, and
\* returns nil at the first attempt that succeeds without making another
\* one; when the first three fail and the fourth succeeds it has returned nil
\* after exactly four attempts.
C16_ClickLadderInOrder ==
    browser.op = "Click"
        => /\ Len(browser.tried) <= 4
           /\ \A k \in 1..Len(browser.tried) :
                 browser.tried[k].name
                     = << "wait_and_click", "force_click", "js_direct_click",
                          "mouse_click" >>[k]
           /\ StopsAtFirstSuccess
           /\ browser.phase = "running" => browser.attemptNum = Len(browser.tried)

\* C16: the first three strategies failed and mouse_click succeeded
C16_FourthStrategySucceeds ==
    /\ browser.op = "Click"
    /\ browser.phase = "returned"
    /\ browser.err = ReturnNil
    /\ Len(browser.tried) = 4
    /\ \A k \in 1..3 : browser.tried[k].err # "nil"
    /\ browser.tried[4] = [name |-> "mouse_click", err |-> "nil",
                           calls |-> << "Evaluate", "Mouse.Click" >>]

\* C17: as long as every attempt of a Click failed the Click goes on until it
\* has made maxRetries + 1 = 4 attempts, and then it returns ActionFailed
\* whose cause is the error of the attempt made last, the one of mouse_click,
\* and whose metadata holds the selector.
C17_ClickFailsAfterFourAttempts ==
    (browser.op = "Click" /\ browser.tried # << >> /\ AllFailed)
        => IF Len(browser.tried) < maxRetries + 1
           THEN browser.phase = "running" /\ browser.err = NoReturn
           ELSE /\ Exhausted("click_failed_all_strategies")
                /\ browser.tried[maxRetries + 1].name = "mouse_click"
                /\ maxRetries + 1 = 4

\* C17: all four strategies failed, the last with a failed mouse click
C17_AllStrategiesFailed ==
    /\ browser.op = "Click"
    /\ browser.selector = S_pay
    /\ browser.phase = "returned"
    /\ Len(browser.tried) = 4
    /\ AllFailed
    /\ browser.err = Wrap("Click", CodeActionFailed, "mouse click failed",
                          [reason |-> "click_failed_all_strategies",
                           stage |-> "interaction", selector |-> S_pay])

\* the page calls of the k-th attempt of a Fill that found the element visible
FillCalls(k) ==
    IF k = 1 THEN << "WaitForSelector", "Fill" >>
    ELSE << "WaitForSelector", "Fill(clear)", "Fill(force)" >>

\* C18: Fill makes at most maxRetries + 1 = 4 attempts; an attempt that does
\* not find the element visible makes no fill; the first attempt otherwise
\* fills without clearing and without force, a later one clears the field
\* and then fills with force; Fill returns nil at the first fill that
\* succeeds, and ActionFailed with the error of the last attempt and the
\* selector once four attempts have failed.
C18_FillRetries ==
    browser.op = "Fill"
        => /\ Len(browser.tried) <= maxRetries + 1
           /\ maxRetries + 1 = 4
           /\ \A k \in 1..Len(browser.tried) :
                 browser.tried[k].calls
                     = IF browser.tried[k].err = "wait for selector failed"
                       THEN << "WaitForSelector" >>
                       ELSE FillCalls(k)
           /\ StopsAtFirstSuccess
           /\ (browser.tried # << >> /\ AllFailed)
                 => IF Len(browser.tried) < maxRetries + 1
                    THEN browser.phase = "running" /\ browser.err = NoReturn
                    ELSE Exhausted("fill_failed_after_retries")

\* C18: the first fill failed, the second attempt did not see the element,
\* the third cleared the field and filled it with force
C18_ThirdAttemptFills ==
    /\ browser.op = "Fill"
    /\ browser.phase = "returned"
    /\ browser.err = ReturnNil
    /\ Len(browser.tried) = 3
    /\ browser.tried[1].err = "fill failed"
    /\ browser.tried[2].err = "wait for selector failed"
    /\ browser.tried[3].calls = << "WaitForSelector", "Fill(clear)", "Fill(force)" >>

\* C19: an operation called while the Manager was not ready has returned
\* BrowserNotReady with the reason browser_not_ready, and made no call on
\* the page or the driver and no attempt.
C19_NotReadyNoPageCall ==
    (browser.op # "none" /\ ~browser.wasReady)
        => /\ browser.op \in Operations
           /\ browser.phase = "returned"
           /\ browser.err = WrapErrorWithReason(browser.op, CodeBrowserNotReady,
                                                "browser_not_ready")
           /\ browser.calls = << >>
           /\ browser.tried = << >>

\* C19: GetPageState was called after a Close that left the page open
C19_NotReadyWithOpenPage ==
    /\ browser.op = "GetPageState"
    /\ ~browser.wasReady
    /\ ~browser.ready
    /\ browser.browserContext = "open"
    /\ browser.page = "open"
    /\ browser.err.Code = CodeBrowserNotReady

\* the operation returned the page-not-active error
PageNotActive ==
    /\ browser.err.Code = CodeBrowserNotReady
    /\ browser.err.Metadata.reason = "page_not_active"

\* the operation made the call c on the page, the context or the driver
Made(c) == \E i \in DOMAIN browser.calls : browser.calls[i] = c

\* C29: an operation called on a ready Manager checks the page first: an open
\* page is kept; a closed or missing page is replaced by another open page of
\* the context when there is one, and by a new page only when there is none;
\* whenever the check passes the Manager holds an open page; and the
\* page-not-active error is returned only when the context is missing or
\* the new page could not be created.
C29_ClosedPageReplaced ==
    (browser.op # "none" /\ browser.wasReady)
        => /\ PageNotActive
                => \/ /\ browser.seen.browserContext = "nil"
                      /\ browser.err.Err = "browser context is nil"
                      /\ browser.calls = << >>
                   \/ /\ browser.seen.browserContext # "nil"
                      /\ browser.err.Err = "failed to create new page"
                      /\ Made("NewPage")
           /\ ~PageNotActive => browser.checked = "open"
           /\ browser.seen.browserContext = "nil" => PageNotActive
           /\ (browser.seen.browserContext # "nil" /\ browser.seen.page = "open")
                => ~PageNotActive /\ ~Made("Pages") /\ ~Made("NewPage")
           /\ (browser.seen.browserContext # "nil" /\ browser.seen.page # "open"
                  /\ browser.seen.pages > 0)
                => ~PageNotActive /\ Made("Pages") /\ ~Made("NewPage")
           /\ (browser.seen.browserContext # "nil" /\ browser.seen.page # "open"
                  /\ browser.seen.pages = 0)
                => Made("Pages") /\ Made("NewPage")

\* C29: an operation found its page closed, took the other open tab of the
\* context and went on without an error
C29_ReattachedToOpenTab ==
    /\ browser.op = "GetPageState"
    /\ browser.wasReady
    /\ browser.seen.page = "closed"
    /\ browser.seen.pages = 1
    /\ browser.checked = "open"
    /\ browser.phase = "returned"
    /\ browser.err = ReturnNil
    /\ Made("Pages")

(***************************************************************************)
(* Properties of the observation compressor (SpecO).                       *)
(***************************************************************************)
\* C23: the compressed observation has at most 40 numbered clickable
\* entries and at most 10 numbered entries of other content; no text it
\* emits is longer than 200 characters and no selector longer than 100.
C23_ObservationBounded ==
    observation.done
        => /\ Len(observation.out.clickable) <= 40
           /\ Len(observation.out.other) <= 10
           /\ \A i \in 1..Len(observation.out.clickable) :
                 /\ observation.out.clickable[i].n = i
                 /\ Len(observation.out.clickable[i].text) <= 200
                 /\ Len(observation.out.clickable[i].selector) <= 100
           /\ \A i \in 1..Len(observation.out.other) :
                 /\ observation.out.other[i].n = i
                 /\ Len(observation.out.other[i].text) <= 200

(***************************************************************************)
(* Properties of the loop (Spec): the life of a task.                      *)
(***************************************************************************)
\* one step of the service, seen from the task
TaskStepsForward ==
    IF nExec' # nExec
    THEN task' # NoTask
            => \/ task' = NewTask
               \/ task' = Failed(NewTask, "browser is not ready") /\ pc' = "done"
    ELSE task # NoTask
            => /\ task' # NoTask
               /\ task.Status # TaskStatusInProgress => task' = task
               /\ pc = "done" => task' = task
               /\ (task.Status = TaskStatusInProgress
                   /\ task'.Status # TaskStatusInProgress)
                     => /\ task'.Status \in {TaskStatusCompleted, TaskStatusFailed}
                        /\ pc' = "done"

\* C25: a task starts in_progress (an Execute that finds the browser not
\* ready fails it before it returns), its status leaves in_progress at most
\* once, to completed or failed and only as Execute returns, and from then
\* on its status, steps, result and error stay as they are, whatever Stop,
\* cancellation or the loop do afterwards.
C25_StatusOneDirectional == [][TaskStepsForward]_vars

\* C25: Stop() was called after Execute had returned a completed task with
\* a step, and the task is as it was
C25_StoppedAfterCompletion ==
    /\ pc = "done"
    /\ task # NoTask
    /\ task.Status = TaskStatusCompleted
    /\ Len(task.Steps) = 1
    /\ stopAt = "none"
    /\ ~running
    /\ stopChan = "closed"

(***************************************************************************)
(* Properties of the dispatcher (SpecD): what a dispatch leaves behind.    *)
(***************************************************************************)
\* the latest dispatch repeated the Fill of the dispatch before it in the
\* same task, which the operator had not declined
FillRepeated ==
    /\ disp # NoDispatch
    /\ disp.action.Type = ActionTypeFill
    /\ disp.nSteps >= 1
    /\ SameAction(prevAct, disp.action)
    /\ task # NoTask
    /\ Len(task.Steps) = disp.nSteps + 1
    /\ task.Steps[disp.nSteps].Error # "action cancelled by user"

\* C26: the second of two identical Fills in a row returned DuplicateAction,
\* added exactly one failed step, and made no call on the browser, neither a
\* fill nor a page-state query.
C26_DuplicateFillMakesNoBrowserCall ==
    FillRepeated
        => /\ disp.err = CodeDuplicateAction
           /\ ~task.Steps[disp.nSteps + 1].Success
           /\ task.Steps[disp.nSteps + 1].Error = "duplicate action detected"
           /\ disp.calls = << >>

(***************************************************************************)
(* Properties of the loop (Spec): the error counter.                       *)
(***************************************************************************)
\* this step is a SendMessage call that failed
ModelCallFailed == modelCalls' = modelCalls + 1 /\ aiFailRun' = aiFailRun + 1

\* this step is a handleAction call that returned an error
DispatchFailed == nDispatch' = nDispatch + 1 /\ disp'.err # NoError

\* one step of the service, seen from the counter
SharedCounterStep ==
    /\ (ModelCallFailed \/ DispatchFailed)
          => /\ consecutiveErrors' = consecutiveErrors + 1
             /\ IF consecutiveErrors' >= 3
                THEN /\ pc' = "done"
                     /\ task'.Status = TaskStatusFailed
                     /\ ret'.err = IF ModelCallFailed THEN CodeAIError
                                   ELSE CodeActionFailed
                ELSE pc' = "loop"
    /\ consecutiveErrors' \notin {consecutiveErrors, consecutiveErrors + 1}
          => consecutiveErrors' = 0
    /\ consecutiveErrors' <= 3
    /\ maxConsecutiveErrors = 3

\* C27: a failed model call and a failed dispatch add one to the same
\* counter; the step that takes it to 3 ends the task as failed, with
\* AIError when it is a model call and ActionFailed when it is a dispatch;
\* the counter only ever goes up by one or back to 0.
C27_OneCounterForBothKinds == [][SharedCounterStep]_vars

\* C27: a dispatch failed, then two model calls failed: AIError
C27_DispatchThenTwoAIFailures ==
    /\ pc = "done"
    /\ ret.err = CodeAIError
    /\ aiFailRun = 2
    /\ LastStepsFailed(1)
    /\ nDispatch = 1

(***************************************************************************)
(* Properties of the loop (Spec): cancellation.                            *)
(***************************************************************************)
\* the latest dispatch of the current Execute ended after the context had
\* been cancelled or Stop() had been called
DispatchInterrupted ==
    /\ disp # NoDispatch
    /\ disp.nExec = nExec
    /\ disp.interrupted

\* one step of the service, seen from a dispatch in flight
CancellationStep ==
    /\ (pc = "dispatch" /\ pc' # "dispatch")
          => /\ nDispatch' = nDispatch + 1
             /\ Len(task'.Steps) = Len(task.Steps) + 1
             /\ task'.Steps[Len(task'.Steps)].Action = pending.Type
             /\ disp'.action = pending
             /\ pc' \in {"loop", "done"}
    /\ (DispatchInterrupted /\ nExec' = nExec)
          => /\ modelCalls' = modelCalls
             /\ nDispatch' = nDispatch
             /\ pc' \in {"loop", "select", "done"}
             /\ task'.Steps = task.Steps

\* C28: a dispatch in flight when the context is cancelled or Stop() is
\* called is completed and its step recorded; after it the loop makes no
\* model call and no dispatch in that Execute: it only reaches the loop
\* condition and the select, and returns.
C28_CancellationAtIterationBoundary == [][CancellationStep]_vars

\* C28: Stop() was called while the second dispatch was in flight; its step
\* is recorded, and Execute returned without another model call
C28_StoppedDuringDispatch ==
    /\ DispatchInterrupted
    /\ stopAt = "dispatch"
    /\ ~running
    /\ ~ctxDone
    /\ disp.nSteps = 1
    /\ Len(task.Steps) = 2
    /\ pc = "done"
    /\ modelCalls = 2

\* a dispatch whose executor ran and failed: one failed step with the text of
\* the executor's error, one user message, the action remembered, and the
\* executor's error returned
FailedExecutorStep ==
    (nDispatch' = nDispatch + 1 /\ disp'.executed /\ disp'.err # NoError)
        => \E r \in executeAction(pending, lastURL, pageURL, DispatchWorld) :
              /\ r.err # NoError
              /\ disp'.err = r.err
              /\ task'.Steps = Append(task.Steps, Step(pending, FALSE, ErrorText(r)))
              /\ messages' = Append(messages,
                                    AIMessage("user",
                                              IF pending.Type = ActionTypeClick
                                              THEN "action_failed_use_coordinates"
                                              ELSE "action_failed", FALSE))
              /\ lastAction' = pending
              /\ consecutiveErrors' = consecutiveErrors + 1

\* C30: when the executor of an action fails, the dispatch adds exactly one
\* failed step carrying the error's text, remembers the action as the last
\* one attempted, appends exactly one user message, and returns the
\* executor's error; the message advises clicking at coordinates exactly
\* when the action is a Click.
C30_FailedExecutorRecorded == [][FailedExecutorStep]_vars

\* C30: a Click whose executor failed has just been dispatched, and the
\* message that answers it advises clicking at coordinates
C30_FailedClickAdvised ==
    /\ disp.action.Type = ActionTypeClick
    /\ disp.executed
    /\ disp.err # NoError
    /\ pc = "loop"
    /\ lastAction = disp.action
    /\ Len(task.Steps) = disp.nSteps + 1
    /\ ~task.Steps[Len(task.Steps)].Success
    /\ Len(messages) = disp.nMsgs + 1
    /\ messages[Len(messages)] = AIMessage("user", "action_failed_use_coordinates", FALSE)

\* an action executeAction or its executor rejects before any browser call
InvalidAction(a) ==
    \/ a.Type \notin { ActionTypeNavigate, ActionTypeClick, ActionTypeFill,
                       ActionTypeWait, ActionTypeScroll, ActionTypeClickCoordinates,
                       ActionTypePress }
    \/ a.Type = ActionTypeNavigate /\ a.URL = << >>
    \/ a.Type \in { ActionTypeClick, ActionTypeFill } /\ a.Selector = << >>
    \/ a.Type = ActionTypePress /\ a.Value = << >>

\* the dispatch of an invalid action made no call but the page-state capture,
\* added one failed step and counted one error
InvalidActionRecorded ==
    /\ disp'.calls = << "GetPageState" >>
    /\ Len(task'.Steps) = Len(task.Steps) + 1
    /\ SubSeq(task'.Steps, 1, Len(task.Steps)) = task.Steps
    /\ task'.Steps[Len(task'.Steps)].Action = pending.Type
    /\ ~task'.Steps[Len(task'.Steps)].Success
    /\ consecutiveErrors' = consecutiveErrors + 1

\* every dispatch of an invalid action fails with InvalidArgument
InvalidActionStep ==
    (nDispatch' = nDispatch + 1 /\ InvalidAction(pending))
        => /\ disp'.err = CodeInvalidArgument
           /\ InvalidActionRecorded

\* C31, as stated: an action of an unknown type, a Navigate without URL, a
\* Click or Fill without selector and a Press without key fail with
\* InvalidArgument, with no browser call that changes the page, one failed
\* step and one counted error.
C31_InvalidActionFailsInvalidArgument == [][InvalidActionStep]_vars

\* the same with the checks that precede the executor: a repetition of the
\* remembered action fails with DuplicateAction, a declined confirmation
\* with CancelledByUser, and only then InvalidArgument
InvalidActionCheckedStep ==
    (nDispatch' = nDispatch + 1 /\ InvalidAction(pending))
        => /\ InvalidActionRecorded
           /\ IF isDuplicateAction(lastAction, pending)
              THEN disp'.err = CodeDuplicateAction /\ ~disp'.executed
              ELSE IF disp'.asked /\ ~requestUserConfirmation(disp'.input)
              THEN /\ disp'.err = CodeCancelledByUser
                   /\ ~disp'.executed
                   /\ pending.Type = ActionTypeFill
              ELSE /\ disp'.err = CodeInvalidArgument
                   /\ disp'.executed
                   /\ lastAction' = pending

\* C31, amended: an invalid action that is neither a repetition of the
\* remembered action nor declined at the confirmation prompt fails with
\* InvalidArgument; a repetition fails with DuplicateAction and a declined
\* Fill with CancelledByUser; in every case no call but the page-state
\* capture is made, one failed step is added and one error is counted.
C31_InvalidActionFailsAfterChecks == [][InvalidActionCheckedStep]_vars

\* C31: an action of an unknown type has been dispatched and has failed with
\* InvalidArgument
C31_UnknownTypeRejected ==
    /\ disp.action = Hover(S_ok)
    /\ disp.executed
    /\ disp.err = CodeInvalidArgument
    /\ disp.calls = << "GetPageState" >>
    /\ Len(task.Steps) = disp.nSteps + 1
    /\ task.Steps[Len(task.Steps)] = Step(disp.action, FALSE, "unknown_action_type")
    /\ lastAction = disp.action

\* one step seen from the conversation: a new task starts it with one user
\* message; within a task it keeps what it holds, and a dispatch adds
\* exactly one user message at its end
ConversationStep ==
    /\ pc \in {"idle", "done"}
         => \/ messages' = messages
            \/ /\ pc' = "init"
               /\ Len(messages') = 1
               /\ messages'[1].Role = "user"
    /\ pc \notin {"idle", "done"}
         => /\ Len(messages) >= 1
            /\ messages[1].Role = "user"
            /\ Len(messages') >= Len(messages)
            /\ SubSeq(messages', 1, Len(messages)) = messages
            /\ nDispatch' = nDispatch + 1
                 => /\ Len(messages') = Len(messages) + 1
                    /\ messages'[Len(messages')].Role = "user"
            /\ nDispatch' = nDispatch => Len(messages') <= Len(messages) + 1

\* C32: the conversation of a task starts as one user message and only
\* grows while the task runs: nothing is removed or rewritten, and every
\* dispatch, however it ends, appends exactly one user message.
C32_ConversationOnlyGrows == [][ConversationStep]_vars

\* C32: a Wait has just been dispatched with success, and its report is the
\* one message the dispatch added
C32_WaitReported ==
    /\ disp.action.Type = ActionTypeWait
    /\ disp.executed
    /\ disp.err = NoError
    /\ pc = "loop"
    /\ messages[1] = AIMessage("user", "system_prompt", FALSE)
    /\ Len(messages) = disp.nMsgs + 1
    /\ messages[Len(messages)] = AIMessage("user", "wait_completed", FALSE)

\* C33: once the goroutine that received the interrupt signal during a task
\* has finished its work, the context of the task is cancelled and the
\* agent's Stop() has been called (s.running is false).
C33_InterruptStopsTask ==
    (console.handler = "returned" /\ console.sigAt \notin {"idle", "done"})
        => ctxDone /\ ~running

\* C33: the signal arrived during a task, its goroutine is done, and the
\* task went on to its end without being cancelled or stopped
C33_TaskRanOnAfterInterrupt ==
    /\ console.handler = "returned"
    /\ console.sigAt = "dispatch"
    /\ console.hook = "idle"
    /\ ~ctxDone
    /\ pc = "done"
    /\ task.Status = TaskStatusCompleted

\* the selectors of the rules for el, in the order test attribute, id, name,
\* aria-label, role, typed input, class names, title
RulesInOrder(el) ==
    << qaSelector(el), idSelector(el), nameSelector(el), ariaSelector(el),
       roleSelector(el), inputSelector(el), classSelector(el), titleSelector(el) >>

\* C34: the selector returned for an element is the one of the first rule
\* that applies to it, in the order test attribute, id, name, aria-label,
\* role, typed input, class names, title; when none applies it is the
\* ancestor path, and the tag name alone when there is no path; it is never
\* empty.
C34_FirstRuleWins ==
    synth.done
        => LET el == synth.el
               rules == RulesInOrder(el)
               applying == { i \in 1..Len(rules) : rules[i] # << >> }
               first == CHOOSE i \in applying : \A j \in applying : i <= j
           IN  /\ synth.selector # << >>
               /\ \A i \in 1..Len(synth.selector) : synth.selector[i] # ""
               /\ applying # {} => synth.selector = rules[first][1]
               /\ (applying = {} /\ pathParts(el) # << >>)
                    => synth.selector = JoinPath(pathParts(el))
               /\ (applying = {} /\ pathParts(el) = << >>)
                    => synth.selector = << TagLower(el.tagName) >>
               /\ (\E i \in 1..Len(qaAttrs) : el.qa[i] # << >>)
                    => SubSeq(synth.selector, 1, 2) = << TagLower(el.tagName), "[" >>
               /\ ((\A i \in 1..Len(qaAttrs) : el.qa[i] = << >>)
                     /\ el.id = << "m","a","i","n" >>)
                    => synth.selector = << "#","m","a","i","n" >>

\* C34: an element outside the document, with no attribute any rule uses,
\* got its tag name as selector
C34_DetachedElementGetsTag ==
    /\ synth.done
    /\ synth.el.tagName = "DIV"
    /\ RulesInOrder(synth.el) = << << >>, << >>, << >>, << >>, << >>, << >>, << >>, << >> >>
    /\ synth.el.chain = << [tagName |-> "DIV", id |-> << >>, index |-> -1] >>
    /\ synth.selector = << "div" >>

\* C35: the first action dispatched in an Execute call (the one dispatched
\* when the task had no step yet) is never rejected as DuplicateAction,
\* whatever earlier Execute calls of the service dispatched.
C35_FirstDispatchNeverDuplicate ==
    (disp # NoDispatch /\ disp.nSteps = 0) => disp.err # CodeDuplicateAction

\* a step of the task seen from its list of steps: a step is added only by the
\* dispatch of the action of a response that SendMessage returned, one step
\* for one response; and Execute comes to a dispatch only by such a response
StepsFollowResponses ==
    /\ (pc \notin {"idle", "done"} /\ Len(task'.Steps) # Len(task.Steps))
         => /\ Len(task'.Steps) = Len(task.Steps) + 1
            /\ pc = "dispatch"
            /\ pc' # "dispatch"
            /\ lastResp.ok
            /\ lastResp.Action = pending
            /\ modelCalls' = modelCalls
    /\ (pc # "dispatch" /\ pc' = "dispatch")
         => /\ modelCalls' = modelCalls + 1
            /\ lastResp'.ok
            /\ task' = task

\* Execute is running
ExecuteRunning == pc \notin {"idle", "done"} /\ ~panicked

\* Execute has returned, or the process has ended in a panic
ExecuteEnded == pc = "done" \/ panicked

C37_OnlyFillAndClickGated ==
    (gate.checked /\ gate.action.Type \notin { ActionTypeFill, ActionTypeClick })
        => ~gate.confirm

\* C37: a navigation to the checkout page, from the checkout page, passed
\* the gate without confirmation
C37_NavigateToCheckoutPassed ==
    /\ gate.checked
    /\ gate.action = Navigate(U_checkout)
    /\ gate.url = U_checkout
    /\ ~gate.confirm

\* C38: after a call to Close, and until the next Launch that succeeds, the
\* Manager is not ready, so that IsReady() reports false.
C38_NotReadyAfterClose ==
    browser.closed => ~browser.ready

\* C38: Close failed to stop the driver and left the flag set; the operation
\* called next found the Manager ready and went on to the closed page
\* instead of returning the browser_not_ready error
C38_OperationRanAfterClose ==
    /\ browser.op \in Operations
    /\ browser.wasClosed
    /\ browser.wasReady
    /\ browser.phase = "returned"
    /\ browser.err # WrapErrorWithReason(browser.op, CodeBrowserNotReady,
                                         "browser_not_ready")

\* the response holds a tool call of the given name
HasToolCall(resp, names) ==
    \E i \in 1..Len(resp.Content) :
        resp.Content[i].Type = "tool_use" /\ resp.Content[i].Name \in names

\* C39: every parsed response, whatever its tool calls, is reported as
\* complete exactly when it contains a complete_task call or its stop reason
\* is end_turn.
C39_CompleteIffToolOrEndTurn ==
    parsed.done =>
        ((parsed.out.ok /\ parsed.out.Complete)
            <=> (\/ HasToolCall(parsed.resp, { "complete_task" })
                 \/ parsed.resp.StopReason = "end_turn"))

\* C39: a response is rejected exactly when one of its tool calls names no
\* tool, and then nothing is reported and the task is not completed; a
\* response that is accepted is reported as complete exactly when it contains
\* a complete_task call or its stop reason is end_turn; an end_turn response
\* without tool call completes the task with an empty Result; and no action
\* of a response with a complete_task call is dispatched.
C39_AcceptedCompleteIffToolOrEndTurn ==
    parsed.done =>
        /\ ~parsed.out.ok <=> \E i \in 1..Len(parsed.resp.Content) :
                                 /\ parsed.resp.Content[i].Type = "tool_use"
                                 /\ parsed.resp.Content[i].Name \notin KnownTools
        /\ ~parsed.out.ok => parsed.exec.Status # TaskStatusCompleted
        /\ parsed.out.ok =>
              (parsed.out.Complete
                  <=> (\/ HasToolCall(parsed.resp, { "complete_task" })
                       \/ parsed.resp.StopReason = "end_turn"))
        /\ (/\ parsed.resp.StopReason = "end_turn"
            /\ ~HasToolCall(parsed.resp, KnownTools \cup { "hover" }))
              => /\ parsed.exec.Status = TaskStatusCompleted
                 /\ parsed.exec.Result = ""
        /\ HasToolCall(parsed.resp, { "complete_task" })
              => parsed.exec.dispatched = NoAction

\* C39: a response of one text block with stop reason end_turn completed the
\* task with an empty Result
C39_EndTurnTextCompleted ==
    /\ parsed.done
    /\ parsed.resp = [StopReason |-> "end_turn", Content |-> << Text("thought") >>]
    /\ parsed.out.ok
    /\ parsed.out.Complete
    /\ parsed.out.Thought = "thought"
    /\ parsed.exec.Status = TaskStatusCompleted
    /\ parsed.exec.Result = ""

====
